---- MODULE Spec2Model ----
(***************************************************************************)
(* Model of the profile publication actor of the contravider               *)
(* (pkg/providers/system.go): System.Run, System.Serve, System.Kill and    *)
(* System.update, over the served root (fingerprint directories and        *)
(* profile symlinks) and the local branch checkouts.                       *)
(*                                                                         *)
(* A profile is "a merge recipe over one or more branches": the configured *)
(* recipes of the model are non-empty.                                     *)
(*                                                                         *)
(* The actor's model takes the merge, the directive tree and the           *)
(* post-processing of a closure in one step each.  What they do inside is  *)
(* modelled by specifications of their own: MergeSpec (templateFromTar),   *)
(* DirectivesSpec (addDirectives, FindProtection), PipelineSpec            *)
(* (PatternActions.Apply, hashFile, signing) and ConfigSpec                *)
(* (Profiles.UnmarshalTOML, Profiles.check).                               *)
(***************************************************************************)
EXTENDS Integers, Sequences, FiniteSets, TLC

\* Commits a branch tip can point to are 1..MaxRev.
MaxRev == 2
\* Number of HTTP handler goroutines calling into the actor.
NumCallers == 2

Callers == 1..NumCallers
Revisions == 1..MaxRev

----------------------------------------------------------------------------
(* Configuration: config.Profiles is map[string][]string; an entry of a    *)
(* recipe is a branch name or, with the prefix '#', a profile reference.   *)

Br(n) == [ref |-> FALSE, name |-> n]
Ref(n) == [ref |-> TRUE, name |-> n]

\* The branches that have a working tree below the workdir.
BranchNames == {"A", "B"}

Profiles ==
    [p1 |-> <<Br("A")>>,
     p2 |-> <<Br("B")>>,
     p3 |-> <<Br("A"), Br("B")>>,
     p4 |-> <<Ref("p1")>>]

ProfileNames == DOMAIN Profiles

\* Names an HTTP request can carry: the configured ones and one that is not.
RequestNames == ProfileNames \cup {"nx"}

\* Indexing a Go map with a missing key gives the nil slice.
Lookup(name) == IF name \in ProfileNames THEN Profiles[name] ELSE <<>>

\* slices.Contains
Contains(all, b) == \E i \in 1..Len(all) : all[i] = b

\* Variant of collectBranchesIn without the slices.Contains test.
RECURSIVE collectBranchesIn_NoContains(_, _, _)
collectBranchesIn_NoContains(p, all, branches) ==
    IF branches = <<>> THEN all
    ELSE LET branch == Head(branches)
             all1 == IF branch.ref
                       THEN collectBranchesIn_NoContains(p, all,
                              IF branch.name \in DOMAIN p THEN p[branch.name]
                              ELSE <<>>)
                     ELSE Append(all, branch.name)
         IN collectBranchesIn_NoContains(p, all1, Tail(branches))

\* Profiles.collectBranches of the map p.
RECURSIVE collectBranchesIn(_, _, _)
collectBranchesIn(p, all, branches) ==
    IF branches = <<>> THEN all
    ELSE LET branch == Head(branches)
             all1 == IF branch.ref
                       THEN collectBranchesIn(p, all,
                              IF branch.name \in DOMAIN p THEN p[branch.name]
                              ELSE <<>>)
                     ELSE IF ~Contains(all, branch.name)
                       THEN Append(all, branch.name)
                     ELSE all
         IN collectBranchesIn(p, all1, Tail(branches))

\* Profiles.Branches of the map p.
BranchesIn(p, name) ==
    collectBranchesIn(p, <<>>, IF name \in DOMAIN p THEN p[name] ELSE <<>>)

\* The order of strings that slices.Sort takes, on the branch names.
BranchRank(b) == IF b = "A" THEN 1 ELSE 2

\* slices.Sort
RECURSIVE Sort(_)
Sort(all) ==
    IF all = <<>> THEN <<>>
    ELSE LET least == CHOOSE i \in 1..Len(all) :
                         \A j \in 1..Len(all) :
                            BranchRank(all[i]) <= BranchRank(all[j])
         IN <<all[least]>>
              \o Sort(SubSeq(all, 1, least - 1) \o SubSeq(all, least + 1, Len(all)))

\* The loop of AllBranches over the map, which Go ranges over in an order
\* of its choice: order is that order.
RECURSIVE collectAll(_, _, _)
collectAll(p, all, order) ==
    IF order = <<>> THEN all
    ELSE collectAll(p, collectBranchesIn(p, all, p[Head(order)]), Tail(order))

\* Profiles.AllBranches of the map p.
AllBranches(p, order) == Sort(collectAll(p, <<>>, order))

collectBranches(all, branches) == collectBranchesIn(Profiles, all, branches)

Branches(name) == collectBranches(<<>>, Lookup(name))

Range(s) == {s[i] : i \in 1..Len(s)}

\* The profiles whose resolved branch list meets the refreshed branches.
DependingProfiles(refreshed) ==
    {p \in ProfileNames : Range(Branches(p)) \cap refreshed # {}}

----------------------------------------------------------------------------
VARIABLES
    rev,     \* rev[b]: HEAD commit of the working tree of branch b
    link,    \* link[p]: target of the symlink <root>/<p>, None if no entry
    dirs,    \* dirs[h]: content of the directory <root>/<h>, for those that exist
    done,    \* System.done
    apc,     \* position of the Run goroutine
    cur,     \* the Serve closure being executed
    upd,     \* the update() call being executed
    cpc,     \* cpc[c]: position of caller c
    creq,    \* creq[c]: what caller c asked for
    cres,    \* cres[c]: what the last call of caller c returned
    epoch,   \* epoch[p], history of p since the tips of its branches last moved:
             \*   "none"         nothing yet
             \*   "invalidated"  update() visited p and found its symlink
             \*   "raced"        a Serve(p) merged while another Serve(p) was waiting
             \*   "built"        a Serve(p) created the symlink
    mrg,     \* the mergeBranches call of a closure, branch by branch
    tb,      \* DirectoryBuilder.root: the directive tree of a closure
    fp,      \* the last FindProtection call on that tree and what it returned
    pipe,    \* patterns.Apply(targetDir) of a closure, walk callback by callback
    conf,    \* the decoding of the profiles table of the configuration file
    web      \* the HTTP request in the handlers of the web controller

\* The parts of a closure that the actor's model above takes in one step.
labvars == <<mrg, tb, fp, pipe, conf, web>>

vars == <<rev, link, dirs, done, apc, cur, upd, cpc, creq, cres, epoch, labvars>>
fsvars == <<rev, link, dirs>>
actorvars == <<done, apc, cur, upd>>
callervars == <<cpc, creq, cres>>

None == <<>>
NoCur == [caller |-> 0, profile |-> "", target |-> None, existed |-> FALSE,
          afterInval |-> FALSE, err |-> ""]
NoUpd == [refreshed |-> {}, todo |-> {}, err |-> FALSE, failed |-> {}, removed |-> {}]
KillCmd == "Kill"

\* No mergeBranches call is under way.
NoMrg == [repo |-> <<>>, data |-> "", branches |-> <<>>, next |-> 0,
          out |-> <<>>, err |-> FALSE]

\* A nil *Directory; a tree is a function from the path of a node (the
\* names from the root down) to the Protection of the node.
NilTree == <<>>

\* A nil *Protection.
NoProt == [user |-> 0, password |-> 0]

\* No FindProtection call has been made on the tree as it is, and no
\* directive file has been added to it.
NoFp == [path |-> <<>>, called |-> FALSE, result |-> NoProt,
         added |-> FALSE, folder |-> <<>>, protection |-> NoProt,
         err |-> FALSE, replaced |-> NoProt]

\* No directory is being post-processed.
NoPipe == [files |-> {}, subdirs |-> {}, sidecars |-> {}, pre |-> {},
           pc |-> "idle", todo |-> <<>>, run |-> 0, again |-> FALSE,
           log |-> <<>>, wrote |-> {}, failed |-> 0,
           last |-> [action |-> "", err |-> FALSE]]

\* A Profiles value nothing has been assigned to (the nil map).
Unassigned == <<>>

\* The configuration has been loaded before NewSystem.
NoConf == [data |-> <<>>, typed |-> TRUE, pc |-> "loaded", err |-> FALSE,
           profiles |-> Unassigned, branches |-> <<>>, all |-> <<>>]

\* No request has reached the web controller.
NoCreds == [ok |-> FALSE, user |-> 0, password |-> 0]
NoWeb == [route |-> "", path |-> <<>>, creds |-> NoCreds, validator |-> NoProt,
          pc |-> "idle", serve |-> "", err |-> "", status |-> 0,
          challenge |-> FALSE, next |-> FALSE, read |-> <<>>]

\* The actor's model does not look into the parts.
LabRest ==
    /\ mrg = NoMrg /\ tb = NilTree /\ fp = NoFp /\ pipe = NoPipe /\ conf = NoConf
    /\ web = NoWeb

\* The actor right after NewSystem, before Run has taken a step.
SystemInit ==
    /\ rev \in [BranchNames -> Revisions]
    /\ link = [p \in ProfileNames |-> None]
    /\ dirs = <<>>
    /\ done = FALSE
    /\ apc = "select"
    /\ cur = NoCur
    /\ upd = NoUpd
    /\ cpc = [c \in Callers |-> "idle"]
    /\ creq = [c \in Callers |-> ""]
    /\ cres = [c \in Callers |-> ""]
    /\ epoch = [p \in ProfileNames |-> "none"]

Init == SystemInit /\ LabRest

----------------------------------------------------------------------------
(* The filesystem below the served root and the checkouts.                 *)

\* currentRevision: git rev-parse HEAD in <workdir>/<branch>; it fails when
\* there is no such working tree, which is the case for a '#' entry.
HasWorkTree(branch) == ~branch.ref /\ branch.name \in BranchNames

currentRevision(branch) == rev[branch.name]

\* Variant of allRevisionsHash that writes only the revision of the first
\* branch into the digest.
allRevisionsHash_FirstOnly(branches) == <<currentRevision(branches[1])>>

\* allRevisionsHash: the digest over the revisions of the branches, in the
\* order given.  Revisions are fixed-width strings and the digest is taken
\* as injective, so the digest is modelled by the sequence of revisions.
allRevisionsHash(branches) ==
    [i \in 1..Len(branches) |-> currentRevision(branches[i])]

allRevisionsHashFails(branches) ==
    \E i \in 1..Len(branches) : ~HasWorkTree(branches[i])

\* os.Stat follows the link: the entry has to exist and so has its target.
StatOk(p) == link[p] # None /\ link[p] \in DOMAIN dirs

\* os.RemoveAll of a fingerprint directory.
RemoveAll(d, h) == [x \in (DOMAIN d) \ {h} |-> d[x]]

\* A directory right after os.MkdirAll created it.
EmptyDir == [files |-> "", dirfile |-> FALSE, pubkey |-> FALSE, sidecars |-> ""]

\* os.MkdirAll: creates the directory, and succeeds on one that exists.
MkdirAll(d, h) == IF h \in DOMAIN d THEN d ELSE (h :> EmptyDir) @@ d

\* The commits of the served repository whose tree carries a directive
\* file: two branches at the same commit hold the same files.
DirectiveRevisions == {r \in Revisions : r % 2 = 1}

\* DirectoryBuilder.Directories() is non-nil once addDirectives has run.
HasDirectives(branches) ==
    \E i \in 1..Len(branches) :
        currentRevision(branches[i]) \in DirectiveRevisions

----------------------------------------------------------------------------
(* Callers: HTTP handler goroutines.                                       *)

\* result <- err, received by the caller blocked in "return <-result": the
\* caller returns r.  cres keeps what the handler tells the three outcomes
\* apart by: nil, ErrProfileNotFound, any other error.  After nil the
\* handler goes on into http.FileServer with the path of its request: creq
\* stays the profile it reads from, until the goroutine makes its next call.
Reply(c, r) ==
    /\ cpc' = [cpc EXCEPT ![c] = "idle"]
    /\ cres' = [cres EXCEPT ![c] = IF r \in {"", "ok"} THEN r ELSE "error"]
    /\ creq' = [creq EXCEPT ![c] = IF r = "ok" THEN @ ELSE ""]

\* Variant of ServeCall without the "len(branches) == 0" return.
ServeCall_NoLenCheck(c, name) ==
    /\ cpc[c] = "idle"
    /\ creq' = [creq EXCEPT ![c] = name]
    /\ cpc' = [cpc EXCEPT ![c] = "sending"]
    /\ cres' = [cres EXCEPT ![c] = ""]
    /\ UNCHANGED <<fsvars, actorvars, epoch, labvars>>

\* System.Serve up to the send on s.fns.
ServeCall(c, name) ==
    /\ cpc[c] = "idle"
    /\ creq' = [creq EXCEPT ![c] = name]
    /\ IF Len(Lookup(name)) = 0
         THEN /\ cpc' = [cpc EXCEPT ![c] = "idle"]
              /\ cres' = [cres EXCEPT ![c] = "ErrProfileNotFound"]
         ELSE /\ cpc' = [cpc EXCEPT ![c] = "sending"]
              /\ cres' = [cres EXCEPT ![c] = ""]
    /\ UNCHANGED <<fsvars, actorvars, epoch, labvars>>

\* System.Kill up to the send on s.fns.
KillCall(c) ==
    /\ cpc[c] = "idle"
    /\ cpc' = [cpc EXCEPT ![c] = "sending"]
    /\ creq' = [creq EXCEPT ![c] = KillCmd]
    /\ cres' = [cres EXCEPT ![c] = ""]
    /\ UNCHANGED <<fsvars, actorvars, epoch, labvars>>

----------------------------------------------------------------------------
(* System.Run                                                              *)

\* case <-ctx.Done()
CtxDone ==
    /\ apc = "select" /\ ~done
    /\ done' = TRUE
    /\ UNCHANGED <<fsvars, apc, cur, upd, callervars, epoch, labvars>>

\* case fn := <-s.fns; fn(s), for the closure of Kill.
ReceiveKill(c) ==
    /\ apc = "select" /\ ~done
    /\ cpc[c] = "sending" /\ creq[c] = KillCmd
    /\ done' = TRUE
    /\ Reply(c, "")
    /\ UNCHANGED <<fsvars, apc, cur, upd, epoch, labvars>>

\* Variant of ReceiveServe under a loop "for {" that does not test s.done.
ReceiveServe_AfterDone(c) ==
    /\ apc = "select"
    /\ cpc[c] = "sending" /\ creq[c] # KillCmd
    /\ cpc' = [cpc EXCEPT ![c] = "waiting"]
    /\ cur' = [NoCur EXCEPT !.caller = c, !.profile = creq[c],
                            !.afterInval = (epoch[creq[c]] = "invalidated")]
    /\ epoch' = [epoch EXCEPT ![creq[c]] =
                    IF @ = "invalidated" THEN "none" ELSE @]
    /\ apc' = "stat"
    /\ UNCHANGED <<fsvars, done, upd, creq, cres, labvars>>

\* case fn := <-s.fns; fn(s), for the closure of Serve: up to os.Stat.
ReceiveServe(c) ==
    /\ apc = "select" /\ ~done
    /\ cpc[c] = "sending" /\ creq[c] # KillCmd
    /\ cpc' = [cpc EXCEPT ![c] = "waiting"]
    /\ cur' = [NoCur EXCEPT !.caller = c, !.profile = creq[c],
                            !.afterInval = (epoch[creq[c]] = "invalidated")]
    /\ epoch' = [epoch EXCEPT ![creq[c]] =
                    IF @ = "invalidated" THEN "none" ELSE @]
    /\ apc' = "stat"
    /\ UNCHANGED <<fsvars, done, upd, creq, cres, labvars>>

----------------------------------------------------------------------------
(* The closure of System.Serve, run by the Run goroutine.                  *)

\* The closure returns: the Run loop is back at its select.
Finish(r) ==
    /\ Reply(cur.caller, r)
    /\ apc' = "select"
    /\ cur' = NoCur

\* errExit without its send: the failing step hands over to it.
Fail(msg) ==
    /\ cur' = [cur EXCEPT !.err = msg]
    /\ apc' = "errExit"
    /\ UNCHANGED <<callervars, epoch>>

\* switch _, err := os.Stat(profileDir)
ServeStat ==
    /\ apc = "stat"
    /\ IF StatOk(cur.profile)
         THEN Finish("ok")
         ELSE /\ apc' = "hash"
              /\ UNCHANGED <<cur, callervars>>
    /\ UNCHANGED <<fsvars, done, upd, epoch, labvars>>

\* h, err := allRevisionsHash(workdir, branches); targetDir := root/hex(h)
ServeHash ==
    /\ apc = "hash"
    /\ LET branches == Lookup(cur.profile)
       IN IF allRevisionsHashFails(branches)
            THEN Finish("calculating hash failed")
            ELSE /\ cur' = [cur EXCEPT !.target = allRevisionsHash(branches)]
                 /\ apc' = "mkdir"
                 /\ UNCHANGED callervars
    /\ UNCHANGED <<fsvars, done, upd, epoch, labvars>>

\* Variant of ServeMkdir whose failure branch returns without "result <- err".
ServeMkdir_NoReply(ok) ==
    /\ apc = "mkdir"
    /\ IF ok
         THEN /\ dirs' = MkdirAll(dirs, cur.target)
              /\ cur' = [cur EXCEPT !.existed = (cur.target \in DOMAIN dirs)]
              /\ apc' = "merge"
         ELSE /\ apc' = "select"
              /\ cur' = NoCur
              /\ dirs' = dirs
    /\ UNCHANGED <<rev, link, done, upd, callervars, epoch, labvars>>

\* os.MkdirAll(targetDir, 0777); a failure returns without errExit.
ServeMkdir(ok) ==
    /\ apc = "mkdir"
    /\ IF ok
         THEN /\ dirs' = MkdirAll(dirs, cur.target)
              /\ cur' = [cur EXCEPT !.existed = (cur.target \in DOMAIN dirs)]
              /\ apc' = "merge"
              /\ UNCHANGED callervars
         ELSE /\ Finish("creating profile directory failed")
              /\ dirs' = dirs
    /\ UNCHANGED <<rev, link, done, upd, epoch, labvars>>

\* Some other caller is blocked in its send of a Serve of profile p.
Pending(p) == \E c \in Callers : cpc[c] = "sending" /\ creq[c] = p

\* mergeBranches(workdir, branches, untar): every file of the branches is
\* rendered with fillTemplateData(profile) and written with O_TRUNC.
ServeMerge(ok) ==
    /\ apc = "merge"
    /\ dirs' = [dirs EXCEPT ![cur.target].files =
                   IF ok THEN cur.profile ELSE "partial"]
    /\ epoch' = [epoch EXCEPT ![cur.profile] =
                   IF @ = "none" /\ Pending(cur.profile) THEN "raced" ELSE @]
    /\ IF ok
         THEN apc' = "directories" /\ cur' = cur
         ELSE apc' = "errExit" /\ cur' = [cur EXCEPT !.err = "merging failed"]
    /\ UNCHANGED <<rev, link, done, upd, callervars, labvars>>

\* Variant of the step without the test of Directories() against nil: the
\* file is written after every merge.
ServeDirectories_Always(ok) ==
    /\ apc = "directories"
    /\ IF ok
         THEN /\ dirs' = [dirs EXCEPT ![cur.target].dirfile = TRUE]
              /\ apc' = "pubkey"
              /\ UNCHANGED <<cur, callervars, epoch>>
         ELSE /\ Fail("storing directories file failed")
              /\ dirs' = dirs
    /\ UNCHANGED <<rev, link, done, upd, labvars>>

\* directories.WriteToFile(targetDir/.directories.json), if there are any.
ServeDirectories(ok) ==
    /\ apc = "directories"
    /\ IF ~HasDirectives(Lookup(cur.profile))
         THEN /\ ok
              /\ apc' = "pubkey"
              /\ UNCHANGED <<dirs, cur, callervars, epoch>>
         ELSE IF ok
           THEN /\ dirs' = [dirs EXCEPT ![cur.target].dirfile = TRUE]
                /\ apc' = "pubkey"
                /\ UNCHANGED <<cur, callervars, epoch>>
           ELSE /\ Fail("storing directories file failed")
                /\ dirs' = dirs
    /\ UNCHANGED <<rev, link, done, upd, labvars>>

\* writePublicKey(s.key, targetDir)
ServePublicKey(ok) ==
    /\ apc = "pubkey"
    /\ IF ok
         THEN /\ dirs' = [dirs EXCEPT ![cur.target].pubkey = TRUE]
              /\ apc' = "apply"
              /\ UNCHANGED <<cur, callervars, epoch>>
         ELSE /\ Fail("signing failed")
              /\ dirs' = dirs
    /\ UNCHANGED <<rev, link, done, upd, labvars>>

\* patterns.Apply(targetDir): hashFile and the signing action write the
\* sidecars that do not exist yet, over the files as they are now.
ServeApply(ok) ==
    /\ apc = "apply"
    /\ IF ok
         THEN /\ dirs' = [dirs EXCEPT ![cur.target].sidecars =
                             IF @ = "" THEN dirs[cur.target].files ELSE @]
              /\ apc' = "symlink"
              /\ UNCHANGED <<cur, callervars, epoch>>
         ELSE /\ Fail("applying actions failed")
              /\ dirs' = dirs
    /\ UNCHANGED <<rev, link, done, upd, labvars>>

\* Variant of ServeSymlink that replaces an entry that is already there.
ServeSymlink_Replace(ok) ==
    /\ apc = "symlink"
    /\ IF ok
         THEN /\ link' = [link EXCEPT ![cur.profile] = cur.target]
              /\ epoch' = [epoch EXCEPT ![cur.profile] = "built"]
              /\ Finish("ok")
         ELSE /\ Fail("symlinking failed")
              /\ link' = link
    /\ UNCHANGED <<rev, dirs, done, upd, labvars>>

\* os.Symlink(targetDir, profileDir): EEXIST when the entry is there, also
\* when it is a symlink whose target is gone.
ServeSymlink(ok) ==
    /\ apc = "symlink"
    /\ IF link[cur.profile] # None
         THEN /\ ok
              /\ Fail("symlinking failed: file exists")
              /\ link' = link
         ELSE IF ok
           THEN /\ link' = [link EXCEPT ![cur.profile] = cur.target]
                /\ epoch' = [epoch EXCEPT ![cur.profile] = "built"]
                /\ Finish("ok")
           ELSE /\ Fail("symlinking failed")
                /\ link' = link
    /\ UNCHANGED <<rev, dirs, done, upd, labvars>>

\* errExit: os.RemoveAll(targetDir); result <- err
errExit ==
    /\ apc = "errExit"
    /\ dirs' = RemoveAll(dirs, cur.target)
    /\ Finish(cur.err)
    /\ UNCHANGED <<rev, link, done, upd, epoch, labvars>>

----------------------------------------------------------------------------
(* System.update, run by the Run goroutine on a tick.                      *)

\* Variant of Tick in a goroutine of its own, next to the Run loop.
Tick_OwnGoroutine(newRev, err) ==
    /\ ~done
    /\ \A b \in BranchNames : newRev[b] >= rev[b]
    /\ rev' = newRev
    /\ LET refreshed == {b \in BranchNames : newRev[b] # rev[b]}
       IN /\ upd' = [NoUpd EXCEPT !.refreshed = refreshed,
                                  !.todo = DependingProfiles(refreshed),
                                  !.err = err]
          /\ epoch' = [p \in ProfileNames |->
                         IF p \in DependingProfiles(refreshed)
                           THEN "none" ELSE epoch[p]]
    /\ apc' = "update"
    /\ UNCHANGED <<link, dirs, done, cur, callervars, labvars>>

\* case <-ticker.C: updateBranches pulls every working tree and reports the
\* branches whose HEAD moved; DependingProfiles gives the profiles to visit.
\* err: updateBranches returned an error with its list, which is logged.
Tick(newRev, err) ==
    /\ apc = "select" /\ ~done
    /\ \A b \in BranchNames : newRev[b] >= rev[b]
    /\ rev' = newRev
    /\ LET refreshed == {b \in BranchNames : newRev[b] # rev[b]}
       IN /\ upd' = [NoUpd EXCEPT !.refreshed = refreshed,
                                  !.todo = DependingProfiles(refreshed),
                                  !.err = err]
          /\ epoch' = [p \in ProfileNames |->
                         IF p \in DependingProfiles(refreshed)
                           THEN "none" ELSE epoch[p]]
    /\ apc' = "update"
    /\ UNCHANGED <<link, dirs, done, cur, callervars, labvars>>

\* Variant of UpdateStep that returns from update() at a failure.
UpdateStep_ReturnAtFailure(p, evalOk, removeAllOk, removeOk) ==
    /\ apc = "update"
    /\ p \in upd.todo
    /\ IF link[p] = None
         THEN /\ evalOk /\ removeAllOk /\ removeOk
              /\ upd' = [upd EXCEPT !.todo = @ \ {p}]
              /\ UNCHANGED <<link, dirs, epoch>>
         ELSE /\ epoch' = [epoch EXCEPT ![p] = "invalidated"]
              /\ IF link[p] \notin DOMAIN dirs \/ ~evalOk
                   THEN /\ removeAllOk /\ removeOk
                        /\ upd' = [upd EXCEPT !.todo = {}, !.failed = @ \cup {p}]
                        /\ UNCHANGED <<link, dirs>>
                   ELSE IF ~removeAllOk \/ ~removeOk
                     THEN /\ upd' = [upd EXCEPT !.todo = {}, !.failed = @ \cup {p}]
                          /\ UNCHANGED <<link, dirs>>
                     ELSE /\ dirs' = RemoveAll(dirs, link[p])
                          /\ link' = [link EXCEPT ![p] = None]
                          /\ upd' = [upd EXCEPT !.todo = @ \ {p},
                                                !.removed = @ \cup {p}]
    /\ UNCHANGED <<rev, done, apc, cur, callervars, labvars>>

\* One round of "for _, profile := range profiles".  evalOk, removeAllOk,
\* removeOk: filepath.EvalSymlinks, os.RemoveAll and os.Remove do not fail
\* for a reason of the filesystem.  upd.failed: the profiles of the pass for
\* which an error was logged; upd.removed: those whose link was removed.
UpdateStep(p, evalOk, removeAllOk, removeOk) ==
    /\ apc = "update"
    /\ p \in upd.todo
    /\ IF link[p] = None
         THEN \* os.Lstat fails: continue
              /\ evalOk /\ removeAllOk /\ removeOk
              /\ upd' = [upd EXCEPT !.todo = @ \ {p}]
              /\ UNCHANGED <<link, dirs, epoch>>
         ELSE /\ epoch' = [epoch EXCEPT ![p] = "invalidated"]
              /\ IF link[p] \notin DOMAIN dirs \/ ~evalOk
                   THEN \* filepath.EvalSymlinks fails: continue
                        /\ removeAllOk /\ removeOk
                        /\ upd' = [upd EXCEPT !.todo = @ \ {p},
                                              !.failed = @ \cup {p}]
                        /\ UNCHANGED <<link, dirs>>
                   ELSE /\ dirs' = IF removeAllOk THEN RemoveAll(dirs, link[p])
                                   ELSE dirs
                        /\ link' = IF removeOk THEN [link EXCEPT ![p] = None]
                                   ELSE link
                        /\ upd' = [upd EXCEPT
                                     !.todo = @ \ {p},
                                     !.failed = IF removeAllOk /\ removeOk
                                                  THEN @ ELSE @ \cup {p},
                                     !.removed = IF removeOk
                                                   THEN @ \cup {p} ELSE @]
    /\ UNCHANGED <<rev, done, apc, cur, callervars, labvars>>

\* update returns.
UpdateEnd ==
    /\ apc = "update"
    /\ upd.todo = {}
    /\ apc' = "select"
    /\ upd' = NoUpd
    /\ UNCHANGED <<fsvars, done, cur, callervars, epoch, labvars>>

----------------------------------------------------------------------------
\* The callers, asking for the given names, and the Run goroutine up to the
\* start of a closure.
Callers_Run(names, errs) ==
    \/ \E c \in Callers, name \in names : ServeCall(c, name)
    \/ \E c \in Callers : KillCall(c)
    \/ CtxDone
    \/ \E c \in Callers : ReceiveKill(c)
    \/ \E c \in Callers : ReceiveServe(c)
    \/ \E newRev \in [BranchNames -> Revisions], err \in errs : Tick(newRev, err)

Next ==
    \/ Callers_Run(RequestNames, {FALSE})
    \/ ServeStat
    \/ ServeHash
    \/ \E ok \in BOOLEAN : ServeMkdir(ok)
    \/ \E ok \in BOOLEAN : ServeMerge(ok)
    \/ \E ok \in BOOLEAN : ServeDirectories(ok)
    \/ \E ok \in BOOLEAN : ServePublicKey(ok)
    \/ \E ok \in BOOLEAN : ServeApply(ok)
    \/ \E ok \in BOOLEAN : ServeSymlink(ok)
    \/ errExit
    \/ \E p \in ProfileNames : UpdateStep(p, TRUE, TRUE, TRUE)
    \/ UpdateEnd

\* The same program on a filesystem and with templates that never fail:
\* every step that can succeed does.
FaultFreeNext ==
    \/ Callers_Run(RequestNames, BOOLEAN)
    \/ ServeStat
    \/ ServeHash
    \/ ServeMkdir(TRUE)
    \/ ServeMerge(TRUE)
    \/ ServeDirectories(TRUE)
    \/ ServePublicKey(TRUE)
    \/ ServeApply(TRUE)
    \/ ServeSymlink(TRUE)
    \/ errExit
    \/ \E p \in ProfileNames : UpdateStep(p, TRUE, TRUE, TRUE)
    \/ UpdateEnd

\* The requests of the invalidation specification: two profiles that
\* depend on the same branch and have directories of their own.
InvalidationNames == {"p1", "p3"}

\* The same program with a filesystem that can fail under update() and a
\* branch refresh that can report an error, and with closures that do not
\* fail.
InvalidationNext ==
    \/ Callers_Run(InvalidationNames, BOOLEAN)
    \/ ServeStat
    \/ ServeHash
    \/ ServeMkdir(TRUE)
    \/ ServeMerge(TRUE)
    \/ ServeDirectories(TRUE)
    \/ ServePublicKey(TRUE)
    \/ ServeApply(TRUE)
    \/ ServeSymlink(TRUE)
    \/ errExit
    \/ \E p \in ProfileNames, evalOk \in BOOLEAN, removeAllOk \in BOOLEAN,
          removeOk \in BOOLEAN : UpdateStep(p, evalOk, removeAllOk, removeOk)
    \/ UpdateEnd

\* The process is started again after the Run loop has ended: NewSystem
\* runs initialCheckout, which pulls the clone and every working tree that
\* exists, and returns a System with done unset and a new channel.  The
\* served root is not touched: the aliases and directories of the previous
\* process are still there.  The goroutines of the previous process are gone.
Restart(newRev) ==
    /\ apc = "select" /\ done
    /\ \A b \in BranchNames : newRev[b] >= rev[b]
    /\ rev' = newRev
    /\ done' = FALSE
    /\ cur' = NoCur
    /\ upd' = NoUpd
    /\ cpc' = [c \in Callers |-> "idle"]
    /\ creq' = [c \in Callers |-> ""]
    /\ cres' = [c \in Callers |-> ""]
    /\ epoch' = [p \in ProfileNames |->
                   IF p \in DependingProfiles(
                                {b \in BranchNames : newRev[b] # rev[b]})
                     THEN "none" ELSE epoch[p]]
    /\ UNCHANGED <<link, dirs, apc, labvars>>

\* The fault-free program over several runs of the process.
RestartNext ==
    \/ FaultFreeNext
    \/ \E newRev \in [BranchNames -> Revisions] : Restart(newRev)

Spec == Init /\ [][Next]_vars

RestartSpec == Init /\ [][RestartNext]_vars

InvalidationSpec == Init /\ [][InvalidationNext]_vars

FaultFreeSpec == Init /\ [][FaultFreeNext]_vars

----------------------------------------------------------------------------
(* Fairness.  The Run goroutine, once in a closure or in update(), runs it *)
(* to its end.  Go's select picks among the ready cases at random, and the *)
(* senders blocked on s.fns are served first-in first-out: a caller that   *)
(* stays blocked in its send while the loop keeps coming back to the       *)
(* select is received.                                                     *)

ActorStep ==
    \/ ServeStat
    \/ ServeHash
    \/ \E ok \in BOOLEAN : ServeMkdir(ok)
    \/ \E ok \in BOOLEAN : ServeMerge(ok)
    \/ \E ok \in BOOLEAN : ServeDirectories(ok)
    \/ \E ok \in BOOLEAN : ServePublicKey(ok)
    \/ \E ok \in BOOLEAN : ServeApply(ok)
    \/ \E ok \in BOOLEAN : ServeSymlink(ok)
    \/ errExit
    \/ \E p \in ProfileNames, evalOk \in BOOLEAN, removeAllOk \in BOOLEAN,
          removeOk \in BOOLEAN : UpdateStep(p, evalOk, removeAllOk, removeOk)
    \/ UpdateEnd

\* The requests of the liveness specification: a profile of one branch, which
\* takes every branch of the closure from the Stat onwards, and the one whose
\* recipe holds a reference, which returns from the closure at the hash.
LiveNames == {"p1", "p4"}

LiveNext == Callers_Run(LiveNames, BOOLEAN) \/ ActorStep

LiveSpec ==
    /\ Init
    /\ [][LiveNext]_vars
    /\ WF_vars(ActorStep)
    /\ \A c \in Callers : SF_vars(ReceiveServe(c))
    /\ \A c \in Callers : SF_vars(ReceiveKill(c))

----------------------------------------------------------------------------
(* The merge of a closure: mergeBranches streams the archive of each       *)
(* branch of the list, in list order, into the untar function built by     *)
(* templateFromTar.                                                        *)

\* Texts a source file can hold are 1..MaxContent; 0 stands for "no file".
MaxContent == 2

\* Paths below www/html at which the branches of the repository hold files.
MergePaths == {<<"f">>, <<"d", "g">>}

\* The branch lists merged.
MergeRecipes == {<<"A">>, <<"B">>, <<"A", "B">>, <<"B", "A">>}

\* What is at a path of the target directory that is a directory.
DirMark == [text |-> 0, url |-> "/"]

\* The tar stream of a branch: a file outside www/html, the directory
\* www/html/d, and the regular files the branch holds.
Archive(repo, b) ==
    {[name |-> <<"README.md">>, typeflag |-> "reg", text |-> 1],
     [name |-> <<"www", "html", "d">>, typeflag |-> "dir", text |-> 0]}
    \cup {[name |-> <<"www", "html">> \o q, typeflag |-> "reg", text |-> repo[b][q]] :
             q \in {x \in MergePaths : repo[b][x] # 0}}

\* template.Parse and Execute with the map of the template data.
Render(text, data) == [text |-> text, url |-> data]

\* The entries of a stream that are not skipped by the www/html test.
Publishable(archive) ==
    {e \in archive : Len(e.name) >= 3 /\ e.name[1] = "www" /\ e.name[2] = "html"}

\* path.Join(parts[1:]...) with parts[1] = targetDir, relative to targetDir.
RelPath(e) == SubSeq(e.name, 3, Len(e.name))

\* Variant of templateFromTar that opens with O_EXCL and skips a file that
\* is already there.
templateFromTar_KeepExisting(out, data, archive) ==
    LET entries == Publishable(archive)
        written == {RelPath(e) : e \in entries}
        entry(q) == CHOOSE e \in entries : RelPath(e) = q
    IN [q \in DOMAIN out \cup written |->
          IF q \in DOMAIN out THEN out[q]
          ELSE IF entry(q).typeflag = "dir" THEN DirMark
          ELSE Render(entry(q).text, data)]

\* templateFromTar(targetDir, data)(r): every regular file of the stream is
\* rendered and written with O_CREATE|O_TRUNC, every directory is created.
templateFromTar(out, data, archive) ==
    LET entries == Publishable(archive)
        written == {RelPath(e) : e \in entries}
        entry(q) == CHOOSE e \in entries : RelPath(e) = q
    IN [q \in DOMAIN out \cup written |->
          IF q \notin written THEN out[q]
          ELSE IF entry(q).typeflag = "dir" THEN DirMark
          ELSE Render(entry(q).text, data)]

MergeInit ==
    /\ SystemInit
    /\ rev = [b \in BranchNames |-> 1]
    /\ \E repo \in [BranchNames -> [MergePaths -> 0..MaxContent]],
          branches \in MergeRecipes, profile \in ProfileNames :
          mrg = [repo |-> repo, data |-> profile, branches |-> branches,
                 next |-> 1, out |-> <<>>, err |-> FALSE]
    /\ tb = NilTree /\ fp = NoFp /\ pipe = NoPipe /\ conf = NoConf
    /\ web = NoWeb

\* One round of the loop over the branches in mergeBranches: the stream of
\* the next branch goes through untar; an error ends the merge.
MergeBranch(ok) ==
    /\ ~mrg.err
    /\ mrg.next \in 1..Len(mrg.branches)
    /\ mrg' = IF ok
                THEN [mrg EXCEPT
                        !.out = templateFromTar(@, mrg.data,
                                    Archive(mrg.repo, mrg.branches[mrg.next])),
                        !.next = @ + 1]
                ELSE [mrg EXCEPT !.err = TRUE]
    /\ UNCHANGED <<rev, link, dirs, done, apc, cur, upd, cpc, creq, cres, epoch>>
    /\ UNCHANGED <<tb, fp, pipe, conf, web>>

MergeNext == \E ok \in BOOLEAN : MergeBranch(ok)

MergeSpec == MergeInit /\ [][MergeNext]_vars

\* mergeBranches has returned nil.
MergeDone == ~mrg.err /\ mrg.next = Len(mrg.branches) + 1

----------------------------------------------------------------------------
(* The directive tree: DirectoryBuilder.addDirectives during the merge,    *)
(* Directory.FindProtection on the tree afterwards.                        *)

\* Users with a password of their own.
NumUsers == 2

Protections == {[user |-> u, password |-> u] : u \in 1..NumUsers}

\* The folders of the repository that can hold a directive file.
DirectiveFolders == {<<>>, <<"a">>, <<"a", "b">>}

DirectiveFile == ".directives.toml"

\* The request paths looked up.
QueryPaths ==
    {<<>>, <<"file">>, <<"a", "file">>, <<"a", "b", "file">>,
     <<"a", "", "b", "file">>, <<"c", "b", "file">>}

\* The nodes addDirectives walks through or creates for path[:len(path)-1].
Prefixes(folder) == {SubSeq(folder, 1, k) : k \in 0..Len(folder)}

\* Variant of addDirectives without the slices.IndexFunc test: a folder
\* of the path is appended to its parent also when the parent has a folder
\* of that name, which stays the one a lookup by name finds.
addDirectives_AlwaysAppend(tree, path, protection) ==
    LET folder == SubSeq(path, 1, Len(path) - 1)
    IN [n \in DOMAIN tree \cup Prefixes(folder) |->
          IF n \in DOMAIN tree /\ n # <<>> THEN tree[n]
          ELSE IF n = folder THEN protection
          ELSE IF n \in DOMAIN tree THEN tree[n]
          ELSE NoProt]

\* Variant of addDirectives that assigns curr.Protection only while it is
\* nil: the first directive file of a folder stays in force.
addDirectives_KeepFirst(tree, path, protection) ==
    LET folder == SubSeq(path, 1, Len(path) - 1)
    IN [n \in DOMAIN tree \cup Prefixes(folder) |->
          IF n = folder /\ (n \notin DOMAIN tree \/ tree[n] = NoProt)
          THEN protection
          ELSE IF n \in DOMAIN tree THEN tree[n]
          ELSE NoProt]

\* addDirectives after a successful decode of the file into d: the nodes
\* down to the folder of the file exist afterwards, the new ones without a
\* Protection, and the node of the folder gets d.Protection.
addDirectives(tree, path, protection) ==
    LET folder == SubSeq(path, 1, Len(path) - 1)
    IN [n \in DOMAIN tree \cup Prefixes(folder) |->
          IF n = folder THEN protection
          ELSE IF n \in DOMAIN tree THEN tree[n]
          ELSE NoProt]

\* WriteToFile and LoadDirectory: a missing file loads as &Directory{}.
LoadDirectory(tree) == IF tree = NilTree THEN (<<>> :> NoProt) ELSE tree

\* Directory.FindProtection, with d at the node n.
RECURSIVE FindProtectionFrom(_, _, _)
FindProtectionFrom(tree, n, path) ==
    IF path = <<>> THEN NoProt
    ELSE LET part == Head(path)
             next == Append(n, part)
         IN IF part = "" THEN FindProtectionFrom(tree, n, Tail(path))
            ELSE IF next \notin DOMAIN tree THEN NoProt
            ELSE IF tree[next] # NoProt THEN tree[next]
            ELSE FindProtectionFrom(tree, next, Tail(path))

FindProtection(tree, path) == FindProtectionFrom(tree, <<>>, path)

DirectivesInit ==
    /\ SystemInit
    /\ rev = [b \in BranchNames |-> 1]
    /\ mrg = NoMrg
    /\ tb = NilTree
    /\ fp = NoFp
    /\ pipe = NoPipe
    /\ conf = NoConf
    /\ web = NoWeb

\* A directive file of the folder arrives from the archive of a branch; a
\* file that does not decode returns the error before the tree is touched.
\* fp.replaced is the Protection the node of the folder had before.
AddDirectives(folder, protection, ok) ==
    /\ tb' = IF ok THEN addDirectives(tb, Append(folder, DirectiveFile), protection)
                   ELSE tb
    /\ fp' = IF ok THEN [NoFp EXCEPT !.added = TRUE, !.folder = folder,
                                     !.protection = protection,
                                     !.replaced = IF folder \in DOMAIN tb
                                                  THEN tb[folder] ELSE NoProt]
                   ELSE [NoFp EXCEPT !.err = TRUE, !.folder = folder]
    /\ UNCHANGED <<rev, link, dirs, done, apc, cur, upd, cpc, creq, cres, epoch>>
    /\ UNCHANGED <<mrg, pipe, conf, web>>

\* A request looks up the protection of its path in the stored tree.
FindProtectionCall(path) ==
    /\ fp' = [NoFp EXCEPT !.path = path, !.called = TRUE,
                          !.result = FindProtection(LoadDirectory(tb), path)]
    /\ UNCHANGED <<rev, link, dirs, done, apc, cur, upd, cpc, creq, cres, epoch>>
    /\ UNCHANGED <<mrg, tb, pipe, conf, web>>

DirectivesNext ==
    \/ \E folder \in DirectiveFolders, protection \in Protections \cup {NoProt},
          ok \in BOOLEAN : AddDirectives(folder, protection, ok)
    \/ \E path \in QueryPaths : FindProtectionCall(path)

DirectivesSpec == DirectivesInit /\ [][DirectivesNext]_vars

----------------------------------------------------------------------------
(* Post-processing: PatternActions.Apply over the target directory with    *)
(* the table of System.buildPatternActions, and the actions hashFile and   *)
(* the signing action of encloseSignFile.                                  *)

\* Apply runs made over one directory.
MaxRuns == 2

\* File names are sequences of lexemes: the words the patterns name, the
\* dot, and words without a dot.  In the order of filepath.Walk (lexical):
\*   .directories.json  advisory.json  category-x.json
\*   csaf-feed-tlp-white.json  index.txt  provider-metadata.json
\*   service.v2.json  sub.json
WalkOrder ==
    << <<".directories", ".", "json">>,
       <<"advisory", ".", "json">>,
       <<"category", "-x", ".", "json">>,
       <<"csaf-feed-tlp-", "white", ".", "json">>,
       <<"index", ".", "txt">>,
       <<"provider-metadata", ".", "json">>,
       <<"service", ".", "v2", ".", "json">>,
       <<"sub", ".", "json">> >>

\* The entry that is a directory, the others are regular files.
SubDirNames == {<<"sub", ".", "json">>}

FileNames == Range(WalkOrder) \ SubDirNames

\* The file that can have sidecars from an earlier, interrupted pass.
EarlierProcessed == <<"advisory", ".", "json">>

SidecarExts == {"sha256", "sha512", "asc"}

\* A lexeme in which the regexp class [^\.] finds no dot.
DotFree(lexeme) == lexeme \notin {".", ".directories"}

\* \.json$
EndsDotJson(name) ==
    Len(name) >= 2 /\ name[Len(name) - 1] = "." /\ name[Len(name)] = "json"

\* <one of words>[^\.]*\.json$, found anywhere in the name.
WordThenJson(name, words) ==
    /\ EndsDotJson(name)
    /\ \E i \in 1..(Len(name) - 2) :
          /\ name[i] \in words
          /\ \A j \in (i + 1)..(Len(name) - 2) : DotFree(name[j])

\* The table of buildPatternActions: regexp and actions, in table order.
PatternTable ==
    << [pattern |-> "csaf-feed-tlp-[^\\.]*\\.json$", actions |-> <<>>],
       [pattern |-> "(\\.directories|provider-metadata|service|category)[^\\.]*\\.json$",
        actions |-> <<>>],
       [pattern |-> "\\.json$", actions |-> <<"hashFile", "signing">>] >>

\* p.Pattern.MatchString(fname) for the patterns of the table.
MatchString(k, name) ==
    CASE k = 1 -> WordThenJson(name, {"csaf-feed-tlp-"})
      [] k = 2 -> WordThenJson(name, {".directories", "provider-metadata",
                                      "service", "category"})
      [] k = 3 -> EndsDotJson(name)

\* Variant of Invocations without the "if info.IsDir()" return.
RECURSIVE Invocations_NoDirCheck(_, _, _)
Invocations_NoDirCheck(k, name, isDir) ==
    IF k > Len(PatternTable) THEN <<>>
    ELSE (IF MatchString(k, name)
            THEN [i \in 1..Len(PatternTable[k].actions) |->
                    <<k, PatternTable[k].actions[i]>>]
            ELSE <<>>)
         \o Invocations_NoDirCheck(k + 1, name, isDir)

\* The callback of the walk for one entry: the action calls it makes, in
\* order, as <<index of the pattern, action>>, from pattern k on.
RECURSIVE Invocations(_, _, _)
Invocations(k, name, isDir) ==
    IF isDir \/ k > Len(PatternTable) THEN <<>>
    ELSE (IF MatchString(k, name)
            THEN [i \in 1..Len(PatternTable[k].actions) |->
                    <<k, PatternTable[k].actions[i]>>]
            ELSE <<>>)
         \o Invocations(k + 1, name, isDir)

\* Variant of hashFile that takes the .sha256 test for both files.
hashFile_OneTest(sidecars, name) ==
    IF <<name, "sha256">> \in sidecars THEN {}
    ELSE {<<name, "sha256">>, <<name, "sha512">>}

\* hashFile: the sidecars it writes, those of the two that do not exist.
hashFile(sidecars, name) ==
    {<<name, "sha256">>, <<name, "sha512">>} \ sidecars

\* The action of encloseSignFile: the signature is written if there is none.
signing(sidecars, name) == {<<name, "asc">>} \ sidecars

\* The files one action call writes.
ActionWrites(action, sidecars, name) ==
    IF action = "hashFile" THEN hashFile(sidecars, name)
    ELSE signing(sidecars, name)

\* The error of an action on a path at which there is no file: os.Open in
\* writeFileHashes and os.ReadFile in signFileWithKeyRing fail, and they
\* are reached when a sidecar of the action is missing.
ActionErr(action, files, sidecars, name) ==
    ActionWrites(action, sidecars, name) # {} /\ name \notin files

\* The files the first n calls of a callback write, one after the other.
RECURSIVE CallsWrite(_, _, _, _)
CallsWrite(calls, n, sidecars, name) ==
    IF n = 0 THEN {}
    ELSE LET before == CallsWrite(calls, n - 1, sidecars, name)
         IN before \cup ActionWrites(calls[n][2], sidecars \cup before, name)

\* The entries of the directory in the order of the walk.
WalkOf(entries) == SelectSeq(WalkOrder, LAMBDA name : name \in entries)

PipelineInit ==
    /\ SystemInit
    /\ rev = [b \in BranchNames |-> 1]
    /\ mrg = NoMrg /\ tb = NilTree /\ fp = NoFp /\ conf = NoConf
    /\ web = NoWeb
    /\ \E files \in SUBSET FileNames, subdirs \in SUBSET SubDirNames,
          exts \in SUBSET SidecarExts :
          /\ pipe = [NoPipe EXCEPT !.files = files, !.subdirs = subdirs,
                                   !.sidecars = {<<EarlierProcessed, e>> : e \in exts}]

\* patterns.Apply(targetDir) is called: filepath.Walk lists the directory.
\* pipe.again: the pass before this one went over the directory and
\* returned nil.
ApplyStart ==
    /\ pipe.pc \in {"idle", "done", "failed"}
    /\ pipe.run < MaxRuns
    /\ LET todo == WalkOf(pipe.files \cup pipe.subdirs)
       IN pipe' = [pipe EXCEPT !.run = @ + 1,
                               !.todo = todo,
                               !.pc = IF todo = <<>> THEN "done" ELSE "walk",
                               !.again = (pipe.pc = "done"),
                               !.pre = pipe.sidecars,
                               !.log = [name \in {} |-> <<>>],
                               !.wrote = {},
                               !.failed = 0]
    /\ UNCHANGED <<rev, link, dirs, done, apc, cur, upd, cpc, creq, cres, epoch>>
    /\ UNCHANGED <<mrg, tb, fp, conf, web>>

\* An action of the table is called on the path of the earlier processed
\* file, as the test of the table does.  On an existing file, ok: reading
\* and writing succeed; half: a failing hashFile had written the .sha256.
ActionCall(action, ok, half) ==
    /\ pipe.pc = "idle"
    /\ LET name == EarlierProcessed
           needs == ActionWrites(action, pipe.sidecars, name)
           err == ActionErr(action, pipe.files, pipe.sidecars, name)
                    \/ (needs # {} /\ ~ok)
           writes == IF ~err THEN needs
                     ELSE IF half THEN needs \cap {<<name, "sha256">>}
                     ELSE {}
       IN /\ half => ~ok /\ action = "hashFile" /\ name \in pipe.files
          /\ pipe' = [pipe EXCEPT !.sidecars = @ \cup writes,
                                  !.last = [action |-> action, err |-> err]]
    /\ UNCHANGED <<rev, link, dirs, done, apc, cur, upd, cpc, creq, cres, epoch>>
    /\ UNCHANGED <<mrg, tb, fp, conf, web>>

\* Variant of ApplyVisit that goes on after an action returned an error.
ApplyVisit_GoOn(failAt, half) ==
    /\ pipe.pc = "walk"
    /\ LET name == Head(pipe.todo)
           calls == Invocations(1, name, name \in pipe.subdirs)
           writes == CallsWrite(calls, Len(calls), pipe.sidecars, name)
       IN /\ failAt \in 0..Len(calls)
          /\ ~half
          /\ pipe' = [pipe EXCEPT
                        !.todo = Tail(@),
                        !.pc = IF Tail(pipe.todo) = <<>> THEN "done" ELSE "walk",
                        !.sidecars = @ \cup writes,
                        !.wrote = @ \cup writes,
                        !.failed = IF failAt # 0 THEN failAt ELSE @,
                        !.log = (name :> calls) @@ @]
    /\ UNCHANGED <<rev, link, dirs, done, apc, cur, upd, cpc, creq, cres, epoch>>
    /\ UNCHANGED <<mrg, tb, fp, conf, web>>

\* The callback of the walk for the next entry.  failAt = 0: every action
\* returns nil; failAt = n: the n-th action call returns an error, which
\* ends the walk; half: a failing hashFile had written the .sha256 already.
\* An action that finds its sidecars returns nil without reading the file.
\* pipe.failed: the call of the callback that returned the error.
ApplyVisit(failAt, half) ==
    /\ pipe.pc = "walk"
    /\ LET name == Head(pipe.todo)
           calls == Invocations(1, name, name \in pipe.subdirs)
           made == IF failAt = 0 THEN calls ELSE SubSeq(calls, 1, failAt)
           complete == IF failAt = 0 THEN Len(calls) ELSE failAt - 1
           halfway == IF failAt # 0 /\ half /\ calls[failAt][2] = "hashFile"
                        THEN {<<name, "sha256">>} \ pipe.sidecars
                        ELSE {}
           writes == CallsWrite(calls, complete, pipe.sidecars, name) \cup halfway
       IN /\ failAt \in 0..Len(calls)
          /\ half => failAt # 0 /\ calls[failAt][2] = "hashFile"
          /\ failAt # 0 =>
                ActionWrites(calls[failAt][2],
                             pipe.sidecars \cup CallsWrite(calls, complete,
                                                           pipe.sidecars, name),
                             name) # {}
          /\ pipe' = [pipe EXCEPT
                        !.failed = failAt,
                        !.todo = IF failAt = 0 THEN Tail(@) ELSE <<>>,
                        !.pc = IF failAt # 0 THEN "failed"
                               ELSE IF Tail(pipe.todo) = <<>> THEN "done"
                               ELSE "walk",
                        !.sidecars = @ \cup writes,
                        !.wrote = @ \cup writes,
                        !.log = (name :> made) @@ @]
    /\ UNCHANGED <<rev, link, dirs, done, apc, cur, upd, cpc, creq, cres, epoch>>
    /\ UNCHANGED <<mrg, tb, fp, conf, web>>

\* The action calls one callback can make at most.
TableActions ==
    Len(PatternTable[1].actions) + Len(PatternTable[2].actions)
        + Len(PatternTable[3].actions)

PipelineNext ==
    \/ ApplyStart
    \/ \E action \in {"hashFile", "signing"}, ok \in BOOLEAN, half \in BOOLEAN :
          ActionCall(action, ok, half)
    \/ \E failAt \in 0..TableActions, half \in BOOLEAN : ApplyVisit(failAt, half)

PipelineSpec == PipelineInit /\ [][PipelineNext]_vars

\* The same with actions that never fail.
FaultFreePipelineNext ==
    \/ ApplyStart
    \/ ApplyVisit(0, FALSE)

FaultFreePipelineSpec == PipelineInit /\ [][FaultFreePipelineNext]_vars

----------------------------------------------------------------------------
(* Loading the profiles table: Profiles.UnmarshalTOML and Profiles.check.  *)

\* Entries a recipe of the file can have at most.
MaxRecipeLen == 2

\* The profiles the file defines; the last one has at most one entry.
ConfNames == {"q1", "q2", "q3"}
ShortNames == {"q3"}

\* What an entry can be: a branch, a reference to a profile of the file,
\* or a reference to a profile the file does not define.
ConfEntries == {Br(b) : b \in BranchNames} \cup {Ref(n) : n \in ConfNames \cup {"qx"}}

RecipesUpTo(n) == UNION {[1..k -> ConfEntries] : k \in 0..n}

ConfTables ==
    {t \in [ConfNames -> RecipesUpTo(MaxRecipeLen)] :
        \A n \in ShortNames : Len(t[n]) <= 1}

\* Variant of Defined that ignores the ok of "branches, ok := p[def]".
Defined_Always(table, name) == TRUE

\* branches, ok := p[def]
Defined(table, name) == name \in DOMAIN table

\* p[def], the nil slice for a missing key.
RecipeOf(table, name) == IF name \in DOMAIN table THEN table[name] ELSE <<>>

\* The closure resolve of checkProfile and its loop over the entries of a
\* recipe; seen is the one map of the checkProfile call, handed on from
\* entry to entry.
RECURSIVE resolve(_, _, _)
RECURSIVE resolveAll(_, _, _)
resolve(table, seen, def) ==
    IF ~def.ref THEN [err |-> FALSE, seen |-> seen]
    ELSE IF def.name \in seen THEN [err |-> TRUE, seen |-> seen]
    ELSE IF ~Defined(table, def.name)
      THEN [err |-> TRUE, seen |-> seen \cup {def.name}]
    ELSE resolveAll(table, seen \cup {def.name}, RecipeOf(table, def.name))

resolveAll(table, seen, branches) ==
    IF branches = <<>> THEN [err |-> FALSE, seen |-> seen]
    ELSE LET first == resolve(table, seen, Head(branches))
         IN IF first.err THEN first
            ELSE resolveAll(table, first.seen, Tail(branches))

\* checkProfile(name, branches) # nil
checkProfile(table, name) == resolveAll(table, {name}, table[name]).err

\* check() # nil: some profile of the map fails checkProfile.
check(table) == \E name \in DOMAIN table : checkProfile(table, name)

ConfigInit ==
    /\ SystemInit
    /\ rev = [b \in BranchNames |-> 1]
    /\ mrg = NoMrg /\ tb = NilTree /\ fp = NoFp /\ pipe = NoPipe
    /\ web = NoWeb
    /\ \E data \in ConfTables, typed \in BOOLEAN :
          conf = [NoConf EXCEPT !.data = data, !.typed = typed,
                                !.pc = "decoding"]

\* UnmarshalTOML(data): a value of the wrong type returns an error, so does
\* a table that check rejects; only then comes "*p = pr".
UnmarshalTOML ==
    /\ conf.pc = "decoding"
    /\ LET err == ~conf.typed \/ check(conf.data)
       IN conf' = [conf EXCEPT !.pc = "loaded",
                               !.err = err,
                               !.profiles = IF err THEN @ ELSE conf.data]
    /\ UNCHANGED <<rev, link, dirs, done, apc, cur, upd, cpc, creq, cres, epoch>>
    /\ UNCHANGED <<mrg, tb, fp, pipe, web>>

\* The orders in which Go can range over the loaded map.
MapOrders(p) ==
    {order \in [1..Cardinality(DOMAIN p) -> DOMAIN p] :
        \A i, j \in DOMAIN order : order[i] = order[j] => i = j}

\* The loaded profiles are put to use: NewSystem checks out AllBranches()
\* and the branch list of each profile is asked for.
NewSystem(order) ==
    /\ conf.pc = "loaded" /\ ~conf.err
    /\ order \in MapOrders(conf.profiles)
    /\ conf' = [conf EXCEPT
                  !.pc = "resolved",
                  !.branches = [n \in DOMAIN conf.profiles |->
                                  BranchesIn(conf.profiles, n)],
                  !.all = AllBranches(conf.profiles, order)]
    /\ UNCHANGED <<rev, link, dirs, done, apc, cur, upd, cpc, creq, cres, epoch>>
    /\ UNCHANGED <<mrg, tb, fp, pipe, web>>

ConfigNext ==
    \/ UnmarshalTOML
    \/ \E order \in [1..Cardinality(ConfNames) -> ConfNames] : NewSystem(order)

ConfigSpec == ConfigInit /\ [][ConfigNext]_vars

----------------------------------------------------------------------------
(* The web controller: Controller.profiles, the handler bound to "/", the  *)
(* file server behind it, and the Basic-Auth middleware around a handler.  *)
(* Serve is taken by what it returns; the tree tb is the directive tree of *)
(* the published directory.                                                *)

DirectoriesFile == ".directories.json"

\* The files of a published directory that requests name; the last one is
\* not there.
WebFiles ==
    {<<DirectoriesFile>>, <<"file">>, <<"a", "file">>, <<"a", "b", "file">>,
     <<"gone">>}

\* req.URL.Path split at "/", after the leading one: "/" is <<>>.  The
\* router redirects paths with repeated slashes before the handler.
WebPaths == {<<>>} \cup {<<n>> \o f : n \in {"p1", "nx"}, f \in WebFiles}

\* What r.BasicAuth() returns: no credentials, or user and password, which
\* can be empty.
WebCreds ==
    {NoCreds} \cup [ok : {TRUE}, user : 0..NumUsers, password : 0..NumUsers]

\* The directive trees a merge leaves in a published directory.
WebTrees ==
    {NilTree} \cup
    {addDirectives(addDirectives(NilTree, Append(f1, DirectiveFile), p1),
                   Append(f2, DirectiveFile), p2) :
       f1 \in DirectiveFolders, f2 \in DirectiveFolders,
       p1 \in Protections \cup {NoProt}, p2 \in Protections \cup {NoProt}}

\* strings.TrimLeft(req.URL.Path, "/")
RECURSIVE TrimLeft(_)
TrimLeft(path) ==
    IF path # <<>> /\ Head(path) = "" THEN TrimLeft(Tail(path)) ELSE path

\* profile, _, _ := strings.Cut(path, "/")
FirstSegment(path) ==
    LET trimmed == TrimLeft(path) IN IF trimmed = <<>> THEN "" ELSE Head(trimmed)

\* Protection.Validate
Validate(p, user, password) == p.user = user /\ p.password = password

\* The file http.Dir opens for the request: the cleaned path below the
\* root, through the link of the profile.
FileExists(tree, file) ==
    /\ file # <<>>
    /\ Head(file) \in ProfileNames
    /\ Tail(file) \in WebFiles \ {<<"gone">>}
    /\ Tail(file) = <<DirectoriesFile>> => tree # NilTree

\* http.FileServer(http.Dir(root)).ServeHTTP: the file of the cleaned path
\* is sent, or 404.
FileServer(w, tree) ==
    LET file == SelectSeq(w.path, LAMBDA seg : seg # "")
    IN IF FileExists(tree, file)
         THEN [w EXCEPT !.status = 200, !.read = file]
         ELSE [w EXCEPT !.status = 404]

WebInit ==
    /\ SystemInit
    /\ rev = [b \in BranchNames |-> 1]
    /\ mrg = NoMrg /\ fp = NoFp /\ pipe = NoPipe /\ conf = NoConf
    /\ tb \in WebTrees
    /\ web = NoWeb

\* A request arrives at the router (route "profiles") or at a handler that
\* BasicAuth wraps with the validator.
Request(route, path, creds, validator) ==
    /\ web.pc \in {"idle", "responded"}
    /\ route = "profiles" => validator = NoProt
    /\ web' = [NoWeb EXCEPT !.route = route, !.path = path, !.creds = creds,
                            !.validator = validator, !.pc = "received"]
    /\ UNCHANGED <<rev, link, dirs, done, apc, cur, upd, cpc, creq, cres, epoch>>
    /\ UNCHANGED <<mrg, tb, fp, pipe, conf>>

\* Controller.profiles up to the call of Serve: the index for an empty
\* first segment, c.sys.Serve(profile) otherwise.
profiles_Serve ==
    /\ web.pc = "received" /\ web.route = "profiles"
    /\ LET profile == FirstSegment(web.path)
       IN web' = IF profile = ""
                   THEN [web EXCEPT !.status = 200, !.pc = "responded"]
                   ELSE [web EXCEPT !.serve = profile, !.pc = "serving"]
    /\ UNCHANGED <<rev, link, dirs, done, apc, cur, upd, cpc, creq, cres, epoch>>
    /\ UNCHANGED <<mrg, tb, fp, pipe, conf>>

\* Variant of profiles_Return without the "case err != nil".
profiles_Return_FallThrough(err) ==
    /\ web.pc = "serving"
    /\ (err = "ErrProfileNotFound") = (Len(Lookup(web.serve)) = 0)
    /\ web' = IF err = "ErrProfileNotFound"
                THEN [web EXCEPT !.err = err, !.status = 404, !.pc = "responded"]
                ELSE FileServer([web EXCEPT !.err = err, !.pc = "responded"], tb)
    /\ UNCHANGED <<rev, link, dirs, done, apc, cur, upd, cpc, creq, cres, epoch>>
    /\ UNCHANGED <<mrg, tb, fp, pipe, conf>>

\* Controller.profiles from the return of Serve on.  Serve returns
\* ErrProfileNotFound for the names without a recipe and for no other.
profiles_Return(err) ==
    /\ web.pc = "serving"
    /\ (err = "ErrProfileNotFound") = (Len(Lookup(web.serve)) = 0)
    /\ web' = CASE err = "ErrProfileNotFound" ->
                     [web EXCEPT !.err = err, !.status = 404, !.pc = "responded"]
                [] err = "error" ->
                     [web EXCEPT !.err = err, !.status = 500, !.pc = "responded"]
                [] OTHER ->
                     FileServer([web EXCEPT !.err = err, !.pc = "responded"], tb)
    /\ UNCHANGED <<rev, link, dirs, done, apc, cur, upd, cpc, creq, cres, epoch>>
    /\ UNCHANGED <<mrg, tb, fp, pipe, conf>>

\* Variant of BasicAuth without the "!ok ||" of the test.
BasicAuth_NoOkTest ==
    /\ web.pc = "received" /\ web.route = "basicauth"
    /\ web' = IF ~Validate(web.validator, web.creds.user, web.creds.password)
                THEN [web EXCEPT !.challenge = TRUE, !.status = 401,
                                 !.pc = "responded"]
                ELSE FileServer([web EXCEPT !.next = TRUE, !.pc = "responded"], tb)
    /\ UNCHANGED <<rev, link, dirs, done, apc, cur, upd, cpc, creq, cres, epoch>>
    /\ UNCHANGED <<mrg, tb, fp, pipe, conf>>

\* The handler Middleware.BasicAuth(next, validate) returns, with the file
\* server as next.
BasicAuth ==
    /\ web.pc = "received" /\ web.route = "basicauth"
    /\ web' = IF \/ ~web.creds.ok
                  \/ ~Validate(web.validator, web.creds.user, web.creds.password)
                THEN [web EXCEPT !.challenge = TRUE, !.status = 401,
                                 !.pc = "responded"]
                ELSE FileServer([web EXCEPT !.next = TRUE, !.pc = "responded"], tb)
    /\ UNCHANGED <<rev, link, dirs, done, apc, cur, upd, cpc, creq, cres, epoch>>
    /\ UNCHANGED <<mrg, tb, fp, pipe, conf>>

WebNext ==
    \/ \E route \in {"profiles", "basicauth"}, path \in WebPaths,
          creds \in WebCreds, validator \in Protections \cup {NoProt} :
          Request(route, path, creds, validator)
    \/ profiles_Serve
    \/ \E err \in {"ok", "ErrProfileNotFound", "error"} : profiles_Return(err)
    \/ BasicAuth

WebSpec == WebInit /\ [][WebNext]_vars

----------------------------------------------------------------------------
(* Vocabulary of the properties.                                           *)

\* Positions of the Serve closure after os.Stat reported "not there".
WorkPcs == {"hash", "mkdir", "merge", "directories", "pubkey", "apply",
            "symlink", "errExit"}

\* Positions of the Serve closure at which targetDir exists and is written.
BuildPcs == {"merge", "directories", "pubkey", "apply", "symlink", "errExit"}

\* The Serve closure returns in this step.
ServeReturns == apc \in {"stat"} \cup WorkPcs /\ apc' = "select"

\* The Serve closure returns in this step because of an I/O or template
\* failure (and not because of what it found in the served root or config).
ServeReturnsIOFailure ==
    /\ ServeReturns
    /\ \/ apc = "mkdir"
       \/ apc = "errExit" /\ cur.err # "symlinking failed: file exists"

\* The fingerprint of a profile at the current local revisions.
Fingerprint(p) == allRevisionsHash(Lookup(p))

TypeOK ==
    /\ rev \in [BranchNames -> Revisions]
    /\ DOMAIN link = ProfileNames
    /\ done \in BOOLEAN
    /\ apc \in {"select", "stat", "update"} \cup WorkPcs
    /\ cpc \in [Callers -> {"idle", "sending", "waiting"}]
    /\ cres \in [Callers -> {"", "ok", "ErrProfileNotFound", "error"}]
    /\ epoch \in [ProfileNames -> {"none", "invalidated", "raced", "built"}]

----------------------------------------------------------------------------
(* C1: Serve(name) for a name that is not a configured profile returns     *)
(* ErrProfileNotFound in the caller's own goroutine and changes nothing:   *)
(* the served root, the checkouts and the actor are as before, and no      *)
(* closure is handed to the actor (nobody becomes a sender on s.fns).      *)
C1_UnknownProfileRejected ==
    [][\A c \in Callers :
         (/\ cpc[c] = "idle"
          /\ creq'[c] # creq[c]
          /\ creq'[c] \notin ProfileNames \cup {KillCmd, ""})
         => /\ cpc'[c] = "idle"
            /\ cres'[c] = "ErrProfileNotFound"
            /\ UNCHANGED <<rev, link, dirs, done, apc, cur, upd>>
            /\ \A d \in Callers : cpc'[d] = "sending" => cpc[d] = "sending"]_vars

C1_Witness ==
    \E c \in Callers :
        /\ creq[c] \notin ProfileNames \cup {KillCmd, ""}
        /\ cres[c] = "ErrProfileNotFound"
        /\ cpc[c] = "idle"
        /\ DOMAIN dirs # {}

(* C2: for a profile P whose branch tips are unchanged since a Serve(P)    *)
(* built and aliased it, a further Serve(P) is a no-op: the closure never  *)
(* gets past os.Stat (no fingerprint, no merge, no write), and P's alias   *)
(* still points at the directory of its fingerprint.                       *)
C2_SecondServeIsNoOp ==
    \A p \in ProfileNames :
        epoch[p] = "built" =>
            /\ ~(apc \in WorkPcs /\ cur.profile = p)
            /\ link[p] = Fingerprint(p)

(* C3: an existing alias never points to a directory that is still being   *)
(* built: while a Serve closure is between MkdirAll and the end of its     *)
(* symlink step (or its cleanup), no alias resolves to its target.         *)
C3_AliasNeverToDirInConstruction ==
    \A p \in ProfileNames :
        StatOk(p) => ~(apc \in BuildPcs /\ cur.target = link[p])

(* C4: when Serve(P) returns the error of a failed merge, directive-tree   *)
(* write, key export, post-processing or symlink, the target directory     *)
(* does not exist and there is no alias entry for P.                       *)
C4_FailureLeavesNoResidue ==
    [][(apc = "errExit" /\ apc' = "select")
         => /\ cur.target \notin DOMAIN dirs'
            /\ link'[cur.profile] = None]_vars

(* C5: when update() has finished its loop after a refresh that reported   *)
(* the branches upd.refreshed, no profile depending on one of them has an  *)
(* alias entry at its public path.                                         *)
C5_DependentsLoseAlias ==
    (apc = "update" /\ upd.todo = {})
        => \A p \in DependingProfiles(upd.refreshed) : link[p] = None

(* C6: the first Serve(P) after a refresh invalidated P, when it meets no  *)
(* I/O or template failure, returns success and leaves P's alias on the    *)
(* directory named by the fingerprint of the current revisions.            *)
C6_ServeAfterInvalidationRebuilds ==
    [][(cur.afterInval /\ ServeReturns /\ ~ServeReturnsIOFailure)
         => /\ cres'[cur.caller] = "ok"
            /\ link'[cur.profile] = Fingerprint(cur.profile)
            /\ link'[cur.profile] \in DOMAIN dirs']_vars

(* C7: a step of update() after a refresh leaves every profile that does   *)
(* not depend on a refreshed branch untouched: its alias and the directory *)
(* the alias resolves to are afterwards exactly as before.                 *)
C7_IndependentProfilesUntouched ==
    [][apc = "update"
         => \A q \in ProfileNames \ DependingProfiles(upd.refreshed) :
               /\ link'[q] = link[q]
               /\ StatOk(q) => /\ link[q] \in DOMAIN dirs'
                               /\ dirs'[link[q]] = dirs[link[q]]]_vars

(* C8 as stated: once a Serve(P) has merged while other Serve(P) calls    *)
(* were waiting, or once P has been built, no further call merges for P as *)
(* long as the tips of P's branches do not move.                           *)
C8_AtMostOneCallMerges ==
    [][(apc = "mkdir" /\ apc' = "merge")
         => epoch[cur.profile] \notin {"raced", "built"}]_vars

(* C8 amended: as long as the tips of P's branches do not move, at most    *)
(* one Serve(P) completes the build (merge, post-processing, symlink), and *)
(* every Serve(P) that returns success once P is built leaves P's alias on *)
(* the existing directory named by P's fingerprint.                        *)
C8_AtMostOneBuildCompletes ==
    [][(ServeReturns /\ cres'[cur.caller] = "ok")
         => /\ apc = "symlink" => epoch[cur.profile] # "built"
            /\ epoch'[cur.profile] = "built"
                 => /\ link'[cur.profile] = Fingerprint(cur.profile)
                    /\ link'[cur.profile] \in DOMAIN dirs']_vars

C8_Witness ==
    /\ apc = "stat"
    /\ epoch[cur.profile] = "built"
    /\ StatOk(cur.profile)
    /\ \E c \in Callers : c # cur.caller /\ cres[c] = "ok"

C10_ExistingDirNotRebuilt ==
    [][(apc \in BuildPcs /\ cur.existed) => dirs' = dirs]_vars

(* C11: two profiles whose resolved branch lists are at identical          *)
(* revisions are materialized into the directory of the same name: when a  *)
(* Serve(Q) returns without an I/O or template failure while the alias of  *)
(* such a profile P resolves, Q's alias afterwards names the directory     *)
(* that P's alias names.                                                   *)
ResolvedRevisions(p) == [i \in 1..Len(Branches(p)) |-> rev[Branches(p)[i]]]

C11_SameRevisionsSameDirectory ==
    [][(ServeReturns /\ ~ServeReturnsIOFailure)
         => \A p \in ProfileNames :
               (/\ StatOk(p)
                /\ link[p] = Fingerprint(p)
                /\ ResolvedRevisions(p) = ResolvedRevisions(cur.profile))
               => link'[cur.profile] = link[p]]_vars

(* C12: the fingerprint is a function of the ordered revisions of the      *)
(* recipe's branches: a step that leaves the revision of every branch of   *)
(* the recipe alone leaves the fingerprint alone, a step in which one of   *)
(* them advances changes it, and the directory a Serve builds is the one   *)
(* named by the fingerprint of the revisions at that time.                 *)
RecipeHasTrees(p) == ~allRevisionsHashFails(Lookup(p))

RecipeRevisionsUnchanged(p) ==
    \A i \in 1..Len(Lookup(p)) : rev'[Lookup(p)[i].name] = rev[Lookup(p)[i].name]

C12_FingerprintFollowsRevisions ==
    /\ [][\A p \in ProfileNames :
            RecipeHasTrees(p)
                => (RecipeRevisionsUnchanged(p) <=> Fingerprint(p)' = Fingerprint(p))]_vars
    /\ [](apc \in BuildPcs => cur.target = Fingerprint(cur.profile))

C12_Witness ==
    /\ apc = "update"
    /\ "p3" \in upd.todo
    /\ Cardinality(upd.refreshed) = 1
    /\ link["p3"] # None
    /\ link["p3"] # Fingerprint("p3")

(* C13: merge is order-sensitive: after a merge that returned nil, the     *)
(* file at every path of the target directory is the rendering of the file *)
(* of the last branch of the list that holds that path, and there is no    *)
(* file at a path that no branch of the list holds; so for A and B holding *)
(* different texts at a path, [A,B] ends with B's and [B,A] with A's.      *)
Defining(q) == {i \in 1..Len(mrg.branches) : mrg.repo[mrg.branches[i]][q] # 0}

LastDefining(q) == CHOOSE i \in Defining(q) : \A j \in Defining(q) : j <= i

C13_LastBranchWins ==
    MergeDone =>
        \A q \in MergePaths :
            IF Defining(q) = {}
              THEN q \notin DOMAIN mrg.out
              ELSE /\ q \in DOMAIN mrg.out
                   /\ mrg.out[q] =
                        Render(mrg.repo[mrg.branches[LastDefining(q)]][q], mrg.data)

C13_Witness ==
    /\ MergeDone
    /\ mrg.branches = <<"B", "A">>
    /\ mrg.repo["A"][<<"f">>] # 0
    /\ mrg.repo["B"][<<"f">>] # 0
    /\ mrg.repo["A"][<<"f">>] # mrg.repo["B"][<<"f">>]
    /\ mrg.out[<<"f">>].text = mrg.repo["A"][<<"f">>]

(* C14: FindProtection returns the deepest policy on the walk from the     *)
(* root along the requested path: of the root and the nodes reached by     *)
(* following the segments for as long as there is a matching child, the    *)
(* Protection of the deepest one that carries one, and none only if none   *)
(* of them carries one.                                                    *)
Segments(path) == SelectSeq(path, LAMBDA part : part # "")

\* The nodes of the walk: the prefixes of the path that are nodes of the tree.
Walk(tree, path) ==
    {n \in Prefixes(Segments(path)) : \A m \in Prefixes(n) : m \in DOMAIN tree}

Carriers(tree, path) == {n \in Walk(tree, path) : tree[n] # NoProt}

Deepest(nodes) == CHOOSE n \in nodes : \A m \in nodes : Len(m) <= Len(n)

C14_DeepestPolicy ==
    fp.called =>
        LET tree == LoadDirectory(tb)
            carriers == Carriers(tree, fp.path)
        IN fp.result = IF carriers = {} THEN NoProt ELSE tree[Deepest(carriers)]

(* C15: protection is inherited down the tree: a lookup that runs into a   *)
(* segment without a matching child, or to the end of the path, below a    *)
(* root that carries a policy while no deeper node of the walk does,       *)
(* returns the policy of the root and not none.                            *)
C15_RootPolicyInherited ==
    fp.called =>
        LET tree == LoadDirectory(tb)
        IN (tree[<<>>] # NoProt /\ Carriers(tree, fp.path) = {<<>>})
               => fp.result = tree[<<>>]

(* C16: in the post-processing pass a file triggers the actions of at most *)
(* one pattern: the calls made for a visited file are exactly the actions  *)
(* of the first pattern of the table that matches its name, in order, and  *)
(* none if no pattern matches.                                             *)
Matching(name) == {k \in 1..Len(PatternTable) : MatchString(k, name)}

FirstMatch(name) == CHOOSE k \in Matching(name) : \A j \in Matching(name) : k <= j

C16_FirstMatchOnly ==
    \A name \in DOMAIN pipe.log \cap pipe.files :
        pipe.log[name] =
            IF Matching(name) = {} THEN <<>>
            ELSE [i \in 1..Len(PatternTable[FirstMatch(name)].actions) |->
                    <<FirstMatch(name), PatternTable[FirstMatch(name)].actions[i]>>]

(* C17: after a pass that returned nil over a directory without earlier    *)
(* sidecars, every file matching one of the two zero-action patterns has   *)
(* no .sha256, .sha512 or .asc sibling, and every other *.json file has    *)
(* all three.                                                              *)
Siblings(name) == {e \in SidecarExts : <<name, e>> \in pipe.sidecars}

C17_ExcludedFilesHaveNoSidecars ==
    (pipe.pc = "done" /\ pipe.pre = {})
        => \A name \in pipe.files :
              IF MatchString(1, name) \/ MatchString(2, name)
                THEN Siblings(name) = {}
                ELSE EndsDotJson(name) => Siblings(name) = SidecarExts

(* C18: hashFile and the signing action are idempotent: a pass creates     *)
(* exactly those sidecars of the files it calls the actions on that were   *)
(* missing when it started, each of the three on its own, and a pass over  *)
(* a directory that an earlier pass has processed writes no file.          *)
Called(action) ==
    {name \in DOMAIN pipe.log :
        \E i \in 1..Len(pipe.log[name]) : pipe.log[name][i][2] = action}

Required ==
    {<<name, e>> : name \in Called("hashFile"), e \in {"sha256", "sha512"}}
        \cup {<<name, "asc">> : name \in Called("signing")}

C18_ActionsIdempotent ==
    /\ pipe.pc = "done"
         => /\ pipe.wrote = Required \ pipe.pre
            /\ pipe.sidecars = pipe.pre \cup Required
    /\ pipe.again => pipe.wrote = {}

C18_Witness ==
    /\ pipe.again
    /\ pipe.pc = "done"
    /\ pipe.wrote = {}
    /\ {<<EarlierProcessed, e>> : e \in SidecarExts} \subseteq Required

(* C20: Apply runs the actions of a pattern on an entry of the directory   *)
(* if and only if the entry is a regular file whose name the pattern       *)
(* matches: in a pass in which no action failed, each action of each       *)
(* pattern has been called exactly once on every visited file the pattern  *)
(* matches and never on a file it does not match nor on a directory.       *)
TimesCalled(name, k, action) ==
    Cardinality({i \in 1..Len(pipe.log[name]) : pipe.log[name][i] = <<k, action>>})

C20_ActionsOnMatchingFilesOnly ==
    pipe.pc \in {"walk", "done"} =>
        \A name \in DOMAIN pipe.log, k \in 1..Len(PatternTable) :
            /\ \A i \in 1..Len(PatternTable[k].actions) :
                  TimesCalled(name, k, PatternTable[k].actions[i]) =
                      IF name \in pipe.files /\ MatchString(k, name) THEN 1 ELSE 0
            /\ \A i \in 1..Len(pipe.log[name]) :
                  (pipe.log[name][i][1] = k) => MatchString(k, name)

C20_Witness ==
    /\ pipe.pc = "done"
    /\ SubDirNames \subseteq DOMAIN pipe.log
    /\ <<"index", ".", "txt">> \in DOMAIN pipe.log
    /\ <<"provider-metadata", ".", "json">> \in DOMAIN pipe.log
    /\ Len(pipe.log[<<"provider-metadata", ".", "json">>]) = 2

(* C19: loading a profiles table in which the '#' references of some       *)
(* profile run into a cycle (a self-reference included) or name a profile  *)
(* that is not defined returns an error and assigns nothing to the target. *)
References(table, name) ==
    {table[name][i].name : i \in {j \in 1..Len(table[name]) : table[name][j].ref}}

\* The names reached from the names in S along one or more references.
RECURSIVE ReachedFrom(_, _, _)
ReachedFrom(table, S, found) ==
    LET step == UNION {References(table, n) : n \in S \cap DOMAIN table}
    IN IF step \subseteq found THEN found
       ELSE ReachedFrom(table, step \ found, found \cup step)

HasCycle(table) == \E n \in DOMAIN table : n \in ReachedFrom(table, {n}, {})

HasUndefined(table) ==
    \E n \in DOMAIN table : ~(References(table, n) \subseteq DOMAIN table)

C19_CyclicOrUndefinedRejected ==
    (conf.pc = "loaded" /\ conf.data # <<>>)
        => ((HasCycle(conf.data) \/ HasUndefined(conf.data))
               => conf.err /\ conf.profiles = Unassigned)

C19_Witness ==
    /\ conf.pc = "loaded" /\ conf.typed /\ conf.data # <<>>
    /\ conf.err /\ conf.profiles = Unassigned
    /\ ~HasUndefined(conf.data)
    /\ \A n \in ConfNames : n \notin References(conf.data, n)
    /\ "q1" \in ReachedFrom(conf.data, {"q1"}, {})

----------------------------------------------------------------------------
(* C21: failing actions.                                                   *)

\* The sidecars an action looks for.
SidecarsOf(action) ==
    IF action = "hashFile" THEN {"sha256", "sha512"} ELSE {"asc"}

\* The entries the walk has visited, the last one last.
Visited == SubSeq(WalkOf(pipe.files \cup pipe.subdirs), 1,
                  Cardinality(DOMAIN pipe.log))

\* C21: the hash action and the sign action return an error on a path with
\* no file and no sidecar; and once an action has returned an error in a
\* pass, Apply has returned: the failing call is the last call of the
\* pass, no action after it has written for the entry, and no later entry
\* has been visited.
C21_FirstFailureEndsApply ==
    /\ (/\ pipe.last.action # ""
        /\ EarlierProcessed \notin pipe.files
        /\ \A e \in SidecarsOf(pipe.last.action) :
              <<EarlierProcessed, e>> \notin pipe.sidecars)
       => pipe.last.err
    /\ pipe.failed # 0 =>
          /\ pipe.pc = "failed"
          /\ pipe.todo = <<>>
          /\ Visited # <<>>
          /\ DOMAIN pipe.log = Range(Visited)
          /\ LET name == Visited[Len(Visited)]
                 calls == Invocations(1, name, name \in pipe.subdirs)
             IN /\ pipe.failed <= Len(calls)
                /\ pipe.log[name] = SubSeq(calls, 1, pipe.failed)
                /\ {w \in pipe.wrote : w[1] = name} \subseteq
                      CallsWrite(calls, pipe.failed - 1, pipe.pre, name)
                        \cup {<<name, "sha256">>}
                /\ <<name, "asc">> \in pipe.wrote =>
                      calls[pipe.failed][2] # "signing"
          /\ \A w \in pipe.wrote : w[1] \in Range(Visited)

\* The signing action failed on the category file and ended the pass before
\* the service file, and the hash action had failed on the missing file.
C21_Witness ==
    /\ pipe.pc = "failed"
    /\ pipe.failed = 2
    /\ pipe.last = [action |-> "hashFile", err |-> TRUE]
    /\ EarlierProcessed \notin pipe.files
    /\ <<"category", "-x", ".", "json">> \in DOMAIN pipe.log
    /\ <<"service", ".", "v2", ".", "json">> \in pipe.files \ DOMAIN pipe.log

----------------------------------------------------------------------------
(* C22: the Basic-Auth challenge.                                          *)

\* C22: a request to a handler wrapped by BasicAuth that carries no
\* credentials, or credentials the validator rejects, is answered 401 with
\* the WWW-Authenticate header and the wrapped handler is not invoked; the
\* wrapped handler runs only when the validator accepts the credentials.
C22_ChallengeUnlessAccepted ==
    (web.route = "basicauth" /\ web.pc = "responded") =>
       LET accepted == /\ web.creds.ok
                       /\ Validate(web.validator, web.creds.user,
                                   web.creds.password)
       IN /\ ~accepted => /\ web.status = 401
                          /\ web.challenge
                          /\ ~web.next
                          /\ web.read = <<>>
          /\ web.next => accepted /\ ~web.challenge /\ web.status # 401

\* A request without credentials to a handler whose validator has the empty
\* user and password has been challenged.
C22_Witness ==
    /\ web.route = "basicauth" /\ web.pc = "responded"
    /\ web.creds = NoCreds
    /\ web.validator = NoProt
    /\ web.status = 401 /\ web.challenge /\ ~web.next

----------------------------------------------------------------------------
(* C23: Serve before the file server.                                      *)

\* C23: for a request with a non-empty first path segment the handler
\* calls Serve on that segment before any file is read; ErrProfileNotFound
\* gives 404 and any other error 500, without a file served; the file
\* server runs only after Serve returned nil.
C23_ServeBeforeFiles ==
    web.route = "profiles" =>
       /\ web.pc = "serving" => web.read = <<>> /\ web.status = 0
       /\ web.read # <<>> =>
             web.serve = FirstSegment(web.path) /\ web.err = "ok"
       /\ (web.pc = "responded" /\ FirstSegment(web.path) # "") =>
             /\ web.serve = FirstSegment(web.path)
             /\ web.err = "ErrProfileNotFound" =>
                   web.status = 404 /\ web.read = <<>>
             /\ web.err = "error" => web.status = 500 /\ web.read = <<>>
             /\ web.err \in {"ok", "ErrProfileNotFound", "error"}

\* Serve of a configured profile returned an error other than
\* ErrProfileNotFound and the request for an existing file was answered 500.
C23_Witness ==
    /\ web.route = "profiles" /\ web.pc = "responded"
    /\ web.path = <<"p1", "file">>
    /\ web.serve = "p1" /\ web.err = "error"
    /\ web.status = 500 /\ web.read = <<>>

----------------------------------------------------------------------------
(* C24: what the HTTP layer hands out.                                     *)

\* C24: the handler bound to "/" never sends the directive tree file of a
\* profile, and sends a file for which FindProtection reports a Protection
\* only if the request carries credentials the Protection validates.
C24_ProtectedContentNeedsCredentials ==
    (web.route = "profiles" /\ web.read # <<>>) =>
       LET file == Tail(web.read)
           protection == FindProtection(LoadDirectory(tb), file)
       IN /\ file # <<DirectoriesFile>>
          /\ protection # NoProt =>
                /\ web.creds.ok
                /\ Validate(protection, web.creds.user, web.creds.password)

----------------------------------------------------------------------------
(* C25: a failed Serve and the Serve after it.                             *)

\* C25: when a Serve closure returns an error, the Run loop is back at its
\* select and goes on; the profile is unpublished, and a later Serve of it
\* can publish it: its recipe can be hashed and nothing is at its public
\* path that the symlink step would find in its way.
C25_FailedServeCanBeRetried ==
    [][(ServeReturns /\ cres'[cur.caller] = "error")
         => /\ apc' = "select" /\ ~done' /\ cur' = NoCur
            /\ ~(link'[cur.profile] # None /\ link'[cur.profile] \in DOMAIN dirs')
            /\ link'[cur.profile] = None
            /\ ~allRevisionsHashFails(Lookup(cur.profile))]_vars

----------------------------------------------------------------------------
(* C26: one command at a time.                                             *)

\* Positions of the Run goroutine inside a Serve closure.
ServePcs == {"stat"} \cup WorkPcs

\* The Run goroutine is in at most one command: in a closure of one caller,
\* who waits for its result, with no invalidation begun; or in update()
\* or at the select, with no closure begun.
InOneCommand ==
    /\ apc \in ServePcs =>
          /\ upd = NoUpd
          /\ cur.caller \in Callers
          /\ {c \in Callers : cpc[c] = "waiting"} = {cur.caller}
          /\ creq[cur.caller] = cur.profile
    /\ apc \notin ServePcs =>
          /\ cur = NoCur
          /\ {c \in Callers : cpc[c] = "waiting"} = {}
    /\ apc # "update" => upd = NoUpd

\* C26: the commands run strictly one at a time.  A closure, once begun,
\* runs to its return with the caller, the profile and the revisions it
\* began with, and an invalidation runs to its end, without a step of
\* another command in between; and the served root changes in steps of
\* the Run goroutine inside a command only.
C26_OneCommandAtATime ==
    [][/\ InOneCommand /\ InOneCommand'
       /\ apc \in ServePcs =>
             /\ apc' \in ServePcs \cup {"select"}
             /\ rev' = rev /\ upd' = upd /\ done' = done
             /\ apc' # "select" =>
                   cur'.caller = cur.caller /\ cur'.profile = cur.profile
       /\ apc = "update" =>
             /\ apc' \in {"update", "select"}
             /\ rev' = rev /\ cur' = cur /\ done' = done
             /\ upd'.refreshed = upd.refreshed \/ apc' = "select"
       /\ (link' # link \/ dirs' # dirs) =>
             /\ apc \in BuildPcs \cup {"mkdir", "update"}
             /\ cpc' = cpc \/ apc' = "select"]_vars

\* The closure of one caller is in its merge while the other caller, who
\* asked for the same profile, is blocked in its send.
C26_Witness ==
    /\ apc = "merge"
    /\ \E c \in Callers :
          c # cur.caller /\ cpc[c] = "sending" /\ creq[c] = cur.profile

----------------------------------------------------------------------------
(* C27: failures during invalidation.                                      *)

\* C27: a failure at one profile of the pass (the alias does not resolve,
\* the directory or the link cannot be removed) and an error of the branch
\* refresh do not end the pass: it visits every profile that depends on a
\* refreshed branch, and every visited profile with an alias, other than
\* those a failure was logged for, has its directory and its alias
\* removed before update() returns.
C27_FailureDoesNotStopThePass ==
    [][/\ (apc = "select" /\ apc' = "update") =>
             upd'.todo = DependingProfiles(upd'.refreshed)
       /\ (apc = "update" /\ apc' = "update") =>
             /\ upd'.refreshed = upd.refreshed
             /\ \A p \in upd.todo \ upd'.todo :
                   /\ upd'.todo = upd.todo \ {p}
                   /\ (link[p] # None /\ p \notin upd'.failed) =>
                         /\ link'[p] = None
                         /\ link[p] \notin DOMAIN dirs'
                         /\ p \in upd'.removed
       /\ (apc = "update" /\ apc' = "select") =>
             /\ upd.todo = {}
             /\ \A p \in DependingProfiles(upd.refreshed) \ upd.failed :
                   link[p] = None]_vars

\* A pass after a refresh that reported an error has come to its end: a
\* failure was logged for one profile and the alias of another was removed.
C27_Witness ==
    /\ apc = "update" /\ upd.todo = {}
    /\ upd.err
    /\ upd.failed # {}
    /\ upd.removed \ upd.failed # {}

----------------------------------------------------------------------------
(* C28: the branch list of a closure.                                      *)

\* C28: the closure of Serve(P) takes the fingerprint over the resolved
\* branch list of P, in which every reference is replaced by the branches
\* of the profile it names: the step after os.Stat goes on to the build
\* with the directory named by the revisions of that list, also for a
\* profile defined through references only.
C28_ServeUsesResolvedBranches ==
    [][(apc = "hash" /\ apc' # "hash")
         => /\ apc' = "mkdir"
            /\ cur'.target = ResolvedRevisions(cur.profile)]_vars

----------------------------------------------------------------------------
(* C29: the resolved branch lists.                                         *)

\* The recipe with every reference replaced, transitively, by the recipe
\* of the profile it names, duplicates kept.
RECURSIVE Expand(_, _)
Expand(table, recipe) ==
    IF recipe = <<>> THEN <<>>
    ELSE (IF Head(recipe).ref
            THEN Expand(table, RecipeOf(table, Head(recipe).name))
            ELSE <<Head(recipe).name>>)
         \o Expand(table, Tail(recipe))

\* The sequence without the repetitions of an earlier element.
FirstOccurrences(seq) ==
    LET keep == {i \in 1..Len(seq) : \A j \in 1..(i - 1) : seq[j] # seq[i]}
        RECURSIVE pick(_)
        pick(i) == IF i > Len(seq) THEN <<>>
                   ELSE (IF i \in keep THEN <<seq[i]>> ELSE <<>>) \o pick(i + 1)
    IN pick(1)

\* The branches named in the recipe of the profile or of a profile reached
\* from it along references.
ReachableBranches(table, name) ==
    {e.name : e \in {x \in UNION {Range(RecipeOf(table, n)) :
                                    n \in {name} \cup ReachedFrom(table, {name}, {})} :
                       ~x.ref}}

\* C29: for the loaded profiles, Branches(name) holds branch names only,
\* each once, exactly those reachable from the profile, in the order of
\* their first occurrence in the transitive expansion of the recipe; and
\* AllBranches is sorted, without duplicates, and holds the branches of
\* all profiles.
C29_BranchesIsTransitiveExpansion ==
    conf.pc = "resolved" =>
       /\ \A n \in DOMAIN conf.profiles :
             LET b == conf.branches[n]
             IN /\ \A i \in 1..Len(b) : b[i] \in BranchNames
                /\ \A i, j \in 1..Len(b) : b[i] = b[j] => i = j
                /\ Range(b) = ReachableBranches(conf.profiles, n)
                /\ b = FirstOccurrences(Expand(conf.profiles, conf.profiles[n]))
       /\ \A i, j \in 1..Len(conf.all) :
             i < j => BranchRank(conf.all[i]) < BranchRank(conf.all[j])
       /\ Range(conf.all) =
             UNION {Range(conf.branches[n]) : n \in DOMAIN conf.profiles}

\* A profile that names B and then a profile of A and B has the list B, A,
\* and AllBranches is A, B.
C29_Witness ==
    /\ conf.pc = "resolved"
    /\ conf.profiles["q1"] = <<Br("A"), Br("B")>>
    /\ conf.profiles["q2"] = <<Br("B"), Ref("q1")>>
    /\ conf.branches["q2"] = <<"B", "A">>
    /\ conf.all = <<"A", "B">>

----------------------------------------------------------------------------
(* C30: the order in which directive files arrive.                         *)

\* C30: a directive file attaches its Protection to the node of its
\* folder, creating the nodes down to it that are missing and leaving the
\* other nodes as they are; and for every directive file of another folder
\* the tree answers each FindProtection query the same way whether that
\* file arrives after this one or before it.
C30_ArrivalOrderDoesNotMatter ==
    [][fp'.added =>
         LET f1 == fp'.folder
             p1 == fp'.protection
         IN /\ DOMAIN tb' = DOMAIN tb \cup Prefixes(f1)
            /\ tb'[f1] = p1
            /\ \A n \in DOMAIN tb' \ {f1} :
                  tb'[n] = IF n \in DOMAIN tb THEN tb[n] ELSE NoProt
            /\ \A f2 \in DirectiveFolders \ {f1},
                  p2 \in Protections \cup {NoProt}, q \in QueryPaths :
                  FindProtection(
                      LoadDirectory(
                          addDirectives(tb', Append(f2, DirectiveFile), p2)), q)
                  = FindProtection(
                      LoadDirectory(
                          addDirectives(
                              addDirectives(tb, Append(f2, DirectiveFile), p2),
                              Append(f1, DirectiveFile), p1)), q)]_vars

\* The file of a/b arrived after the file of the root and created the
\* nodes a and a/b.
C30_Witness ==
    /\ fp.added /\ fp.folder = <<"a", "b">> /\ fp.protection # NoProt
    /\ DOMAIN tb = {<<>>, <<"a">>, <<"a", "b">>}
    /\ tb[<<>>] # NoProt
    /\ tb[<<"a">>] = NoProt
    /\ tb[<<"a", "b">>] = fp.protection

----------------------------------------------------------------------------
(* C31: two directive files for one folder, and a file that does not parse.*)

\* C31: when a directive file arrives for a folder whose node exists in
\* the tree, from the directive file of an earlier branch, the node's
\* Protection afterwards is the one of the file that arrived later,
\* whatever it was before; and a directive file that fails to parse
\* returns its error and leaves the tree as it was.
C31_LaterDirectiveWins ==
    [][/\ (fp'.added /\ fp'.folder \in DOMAIN tb) =>
            /\ tb'[fp'.folder] = fp'.protection
            /\ fp'.replaced = tb[fp'.folder]
       /\ fp'.err => (tb' = tb /\ ~fp'.added)]_vars

\* A directive file has replaced the Protection an earlier file had set
\* on the node of the folder a by another one.
C31_Witness ==
    /\ fp.added /\ fp.folder = <<"a">>
    /\ fp.replaced # NoProt /\ fp.protection # NoProt
    /\ fp.replaced # fp.protection
    /\ tb[<<"a">>] = fp.protection

----------------------------------------------------------------------------
(* C32: the stored directive tree of a materialized directory.             *)

\* C32: when a Serve has materialized a directory and published it, the
\* directory holds .directories.json exactly when the merge met a
\* directive file, that is when one of the profile's branches is at a
\* commit carrying one; and for a directory without the file LoadDirectory
\* yields the empty tree, in which FindProtection finds no Protection for
\* any path.
C32_DirectoriesFileIffDirectives ==
    [][(apc = "symlink" /\ cres'[cur.caller] = "ok") =>
         LET recipe == Lookup(cur.profile)
             stored == dirs'[cur.target].dirfile
         IN /\ stored <=> \E i \in 1..Len(recipe) :
                              rev[recipe[i].name] \in DirectiveRevisions
            /\ ~stored =>
                  /\ LoadDirectory(NilTree) = (<<>> :> NoProt)
                  /\ \A q \in QueryPaths :
                        FindProtection(LoadDirectory(NilTree), q) = NoProt]_vars

\* p1 is published from a directory without the file, p3 (whose second
\* branch is at a commit with a directive file) from one with the file.
C32_Witness ==
    /\ apc = "select"
    /\ StatOk("p1") /\ StatOk("p3")
    /\ epoch["p1"] = "built" /\ epoch["p3"] = "built"
    /\ ~dirs[link["p1"]].dirfile
    /\ dirs[link["p3"]].dirfile

----------------------------------------------------------------------------
(* C33: the end of the Run loop.                                           *)

\* C33: once the Run loop has seen its context cancelled or has run the
\* closure of Kill, it takes no command and no tick any more: the actor
\* stays at its select, and the revisions, the served root and the state
\* of the refresh stay as they are; and s.done is only ever set between
\* two commands, so a Serve that has begun runs on to its reply, through
\* its last step or through errExit.
C33_NothingRunsAfterTheLoopEnded ==
    [][/\ done => /\ done' /\ apc = "select" /\ apc' = "select"
                  /\ cur' = cur /\ upd' = upd
                  /\ rev' = rev /\ link' = link /\ dirs' = dirs
                  /\ \A c \in Callers : cpc'[c] # "waiting"
       /\ (~done /\ done') => apc = "select" /\ cur = NoCur /\ upd = NoUpd
       /\ apc \in {"stat"} \cup WorkPcs =>
             /\ ~done'
             /\ apc' \in {"stat", "select"} \cup WorkPcs
             /\ apc' = "select" => cpc'[cur.caller] = "idle"]_vars

\* The loop has ended after it had published a profile, and a Serve call
\* made before or after that is blocked in its send.
C33_Witness ==
    /\ done
    /\ \E p \in ProfileNames : StatOk(p)
    /\ \E c \in Callers : cpc[c] = "sending" /\ creq[c] \in ProfileNames

----------------------------------------------------------------------------
(* C34: aliases between two commands.                                      *)

\* C34: whenever the actor is between two commands, every alias that
\* exists under the served root resolves to an existing directory.
C34_NoDanglingAlias ==
    apc = "select" =>
        \A p \in ProfileNames : link[p] # None => link[p] \in DOMAIN dirs

----------------------------------------------------------------------------
(* C35: the frame of a failing Serve.                                      *)

\* C35: when a Serve(P) ends in errExit, every other profile Q has the
\* alias it had when the call began, and the directory that alias names
\* exists afterwards exactly when it existed when the call began, also
\* when it is the directory of P's fingerprint.
C35_FailedServeLeavesOthersUntouched ==
    [][apc = "errExit" =>
         \A q \in ProfileNames \ {cur.profile} :
            /\ link'[q] = link[q]
            /\ link[q] # None =>
                  ((link[q] \in DOMAIN dirs') <=>
                      IF link[q] = cur.target THEN cur.existed
                      ELSE link[q] \in DOMAIN dirs)]_vars

----------------------------------------------------------------------------
(* C36: calls around the end of the Run loop.                              *)

\* C36: every call of Serve for a configured profile and every call of
\* Kill that has begun returns to its caller at some time, also one that
\* is made, or is still blocked in its send, when the Run loop has ended.
C36_EveryCallReturns ==
    \A c \in Callers :
        (cpc[c] # "idle" /\ creq[c] \in ProfileNames \cup {KillCmd})
            ~> (cpc[c] = "idle")

----------------------------------------------------------------------------
(* C37: aliases and the current revisions.                                 *)

\* C37: whenever the actor is between two commands, every alias that
\* exists names the directory of the fingerprint of the current local
\* revisions of the profile's branches, also in a process that was
\* started over a served root a previous process has left behind.
C37_AliasNamesCurrentFingerprint ==
    apc = "select" =>
        \A p \in ProfileNames :
            link[p] # None =>
                link[p] = [i \in 1..Len(Branches(p)) |-> rev[Branches(p)[i]]]

----------------------------------------------------------------------------
(* C38: the tables Profiles.check accepts.                                 *)

\* C38: a well-typed profiles table whose reference graph has no cycle
\* and whose references all name a profile of the table is accepted by
\* check and becomes the loaded map, also when a profile is reached along
\* two reference paths or is referenced twice in one recipe.
C38_AcyclicDefinedTablesAccepted ==
    (conf.pc = "loaded" /\ conf.typed /\ conf.data # <<>>)
        => ((~HasCycle(conf.data) /\ ~HasUndefined(conf.data))
               => ~conf.err /\ conf.profiles = conf.data)

----------------------------------------------------------------------------
(* C39: the handler's read after Serve.                                    *)

\* C39: while a handler that got nil from Serve(P) is in its read of the
\* files under P's alias, no step of the actor changes that read: the
\* alias stays, and the directory it names stays and keeps its content.
C39_ReadNotDisturbed ==
    [][\A c \in Callers :
          (/\ cpc[c] = "idle" /\ cres[c] = "ok" /\ creq[c] \in ProfileNames
           /\ cpc'[c] = "idle" /\ creq'[c] = creq[c]
           /\ StatOk(creq[c]))
              => /\ link'[creq[c]] = link[creq[c]]
                 /\ link[creq[c]] \in DOMAIN dirs'
                 /\ dirs'[link[creq[c]]] = dirs[link[creq[c]]]]_vars

====
